---------------------------- MODULE Spec2Model ----------------------------
(***************************************************************************)
(* RBAC and token-authentication layer of the Transportation Forms         *)
(* backend: the Token Service (backend/auth/jwt_handler.py), the           *)
(* Permission Catalog (backend/auth/permissions.py), the Permission        *)
(* Resolver, the Authorization Gate and the Audit Recorder                 *)
(* (backend/auth/authorization.py) over the role store of                  *)
(* backend/models.py.                                                      *)
(*                                                                         *)
(* Time is counted in ticks, Resolution ticks to the second, so that a     *)
(* timestamp (a float in the code) can fall between two whole seconds.     *)
(***************************************************************************)
EXTENDS Integers, Sequences, FiniteSets, TLC

VARIABLES
    now,        \* the clock, in ticks (datetime.now(timezone.utc))
    tokens,     \* the tokens minted so far by the Token Service
    users,      \* ids of the rows of table users
    roles,      \* table roles: role id -> row
    userRoles,  \* table user_roles: a set of rows
    auditLog,   \* table audit_logs, in insertion order
    forms,      \* table forms: form id -> row
    auth_states,    \* _auth_states of routes/auth.py: state -> its entry
    secrets_drawn,  \* how many values secrets.token_urlsafe has returned
    callback,       \* the session of a login callback between its statements
    lastOp      \* the operation performed by the last step, with its outcome

vars ==
    <<now, tokens, users, roles, userRoles, auditLog, forms, auth_states,
      secrets_drawn, callback, lastOp>>

(***************************************************************************)
(* Bounds of the model.                                                    *)
(***************************************************************************)
Resolution == 2     \* ticks per second
MaxTime == 2        \* the clock stops at this many ticks
MaxTokens == 1      \* tokens kept in `tokens`
MaxLen == 2         \* longest permission list handed to has_any / has_all
MaxAudit == 1       \* gate checks stop once the audit log holds this many rows
AuditDepth == 2     \* the same, where every writer of the store takes part

(***************************************************************************)
(* Small helpers.                                                          *)
(***************************************************************************)
Range(s) == {s[i] : i \in 1..Len(s)}

Max(a, b) == IF a >= b THEN a ELSE b

\* Python's int() on a float given as ticks: whole seconds, truncated
\* towards zero.
IntSeconds(ticks) ==
    IF ticks >= 0 THEN ticks \div Resolution ELSE -((-ticks) \div Resolution)

\* dict.get(key, default)
Get(d, key, default) == IF key \in DOMAIN d THEN d[key] ELSE default

SeqsUpTo(S, n) == UNION {[1..k -> S] : k \in 0..n}

(***************************************************************************)
(* Token Service: backend/auth/jwt_handler.py                              *)
(***************************************************************************)
ACCESS_TOKEN_EXPIRY == 1800
REFRESH_TOKEN_EXPIRY == 604800
TOKEN_ISSUER == "transportation-forms-api"
TOKEN_AUDIENCE == "transportation-forms-web"
PRIVATE_KEY == "service-key"
PUBLIC_KEY == "service-key"

\* expires_delta: Optional[timedelta], the timedelta in ticks
NoDelta == [none |-> TRUE, ticks |-> 0]
Delta(t) == [none |-> FALSE, ticks |-> t]

\* jwt.encode(payload, key, algorithm=RS256): a compact token is its payload
\* together with the key that signed it.
jwt_encode(payload, key) == [wellformed |-> TRUE, payload |-> payload, key |-> key]

\* A string that is no compact token ("not.a.token", "").
MalformedToken == [wellformed |-> FALSE, payload |-> [type |-> "none"], key |-> "none"]

\* jwt.decode(token, key, algorithms, audience, issuer, options): PyJWT parses
\* the token, verifies the signature, then exp (int(exp) <= now, when
\* verify_exp), then iss, then aud.  The timestamps are seconds; int(exp)
\* drops the fraction.
jwt_decode(token, key, audience, issuer, verify_exp, t) ==
    IF ~token.wellformed
    THEN [ok |-> FALSE, error |-> "DecodeError", payload |-> token.payload]
    ELSE IF token.key # key
    THEN [ok |-> FALSE, error |-> "InvalidSignatureError", payload |-> token.payload]
    ELSE IF verify_exp /\ "exp" \in DOMAIN token.payload
                       /\ IntSeconds(token.payload.exp) * Resolution <= t
    THEN [ok |-> FALSE, error |-> "ExpiredSignatureError", payload |-> token.payload]
    ELSE IF Get(token.payload, "iss", "") # issuer
    THEN [ok |-> FALSE, error |-> "InvalidIssuerError", payload |-> token.payload]
    ELSE IF Get(token.payload, "aud", "") # audience
    THEN [ok |-> FALSE, error |-> "InvalidAudienceError", payload |-> token.payload]
    ELSE [ok |-> TRUE, error |-> "", payload |-> token.payload]

TokenData(sub, email, name, roleNames, token_type) ==
    [sub |-> sub, email |-> email, name |-> name, roles |-> roleNames,
     token_type |-> token_type]

NoTokenData == TokenData("", "", "", <<>>, "")

\* generate_access_token embedding the role names in the opposite order:
\* what C19 rests on.
generate_access_token_with_reversed_roles(user_id, email, name, roleNames, expires_delta, t) ==
    LET delta == IF expires_delta.none THEN ACCESS_TOKEN_EXPIRY * Resolution
                                       ELSE expires_delta.ticks
        payload == [sub |-> user_id, email |-> email, name |-> name,
                    roles |-> [i \in 1..Len(roleNames) |->
                                  roleNames[Len(roleNames) + 1 - i]],
                    iss |-> TOKEN_ISSUER,
                    aud |-> TOKEN_AUDIENCE, exp |-> t + delta, iat |-> t,
                    type |-> "access"]
    IN  jwt_encode(payload, PRIVATE_KEY)

generate_access_token(user_id, email, name, roleNames, expires_delta, t) ==
    LET delta == IF expires_delta.none THEN ACCESS_TOKEN_EXPIRY * Resolution
                                       ELSE expires_delta.ticks
        payload == [sub |-> user_id, email |-> email, name |-> name,
                    roles |-> roleNames, iss |-> TOKEN_ISSUER,
                    aud |-> TOKEN_AUDIENCE, exp |-> t + delta, iat |-> t,
                    type |-> "access"]
    IN  jwt_encode(payload, PRIVATE_KEY)

\* generate_refresh_token embedding the admin role name next to the
\* subject: what C21 rests on.
generate_refresh_token_with_roles(user_id, expires_delta, t) ==
    LET delta == IF expires_delta.none THEN REFRESH_TOKEN_EXPIRY * Resolution
                                       ELSE expires_delta.ticks
        payload == [sub |-> user_id, roles |-> <<"admin">>, iss |-> TOKEN_ISSUER,
                    aud |-> TOKEN_AUDIENCE, exp |-> t + delta, iat |-> t,
                    type |-> "refresh"]
    IN  jwt_encode(payload, PRIVATE_KEY)

generate_refresh_token(user_id, expires_delta, t) ==
    LET delta == IF expires_delta.none THEN REFRESH_TOKEN_EXPIRY * Resolution
                                       ELSE expires_delta.ticks
        payload == [sub |-> user_id, iss |-> TOKEN_ISSUER,
                    aud |-> TOKEN_AUDIENCE, exp |-> t + delta, iat |-> t,
                    type |-> "refresh"]
    IN  jwt_encode(payload, PRIVATE_KEY)

\* validate_token without the comparison of the payload's type with
\* token_type: what C1 rests on.
validate_token_without_type_check(token, token_type, t) ==
    LET d == jwt_decode(token, PUBLIC_KEY, TOKEN_AUDIENCE, TOKEN_ISSUER, TRUE, t)
        payload == d.payload
    IN  IF ~d.ok
        THEN [ok |-> FALSE,
              error |-> CASE d.error = "ExpiredSignatureError" -> "Token has expired"
                          [] d.error = "InvalidAudienceError" -> "Invalid token audience"
                          [] d.error = "InvalidIssuerError" -> "Invalid token issuer"
                          [] OTHER -> "Token validation failed",
              data |-> NoTokenData]
        ELSE IF token_type = "refresh"
        THEN [ok |-> TRUE, error |-> "",
              data |-> TokenData(Get(payload, "sub", ""), "", "", <<>>, token_type)]
        ELSE [ok |-> TRUE, error |-> "",
              data |-> TokenData(Get(payload, "sub", ""), Get(payload, "email", ""),
                                 Get(payload, "name", ""), Get(payload, "roles", <<>>),
                                 token_type)]

\* validate_token: the ValueError it raises is the error of the result.
validate_token(token, token_type, t) ==
    LET d == jwt_decode(token, PUBLIC_KEY, TOKEN_AUDIENCE, TOKEN_ISSUER, TRUE, t)
        payload == d.payload
    IN  IF ~d.ok
        THEN [ok |-> FALSE,
              error |-> CASE d.error = "ExpiredSignatureError" -> "Token has expired"
                          [] d.error = "InvalidAudienceError" -> "Invalid token audience"
                          [] d.error = "InvalidIssuerError" -> "Invalid token issuer"
                          [] OTHER -> "Token validation failed",
              data |-> NoTokenData]
        ELSE IF Get(payload, "type", "") # token_type
        THEN [ok |-> FALSE, error |-> "Invalid token type", data |-> NoTokenData]
        ELSE IF token_type = "refresh"
        THEN [ok |-> TRUE, error |-> "",
              data |-> TokenData(Get(payload, "sub", ""), "", "", <<>>, token_type)]
        ELSE [ok |-> TRUE, error |-> "",
              data |-> TokenData(Get(payload, "sub", ""), Get(payload, "email", ""),
                                 Get(payload, "name", ""), Get(payload, "roles", <<>>),
                                 token_type)]

\* refresh_access_token without the comparison of the token's subject with
\* user_id: what C2 rests on.
refresh_access_token_without_subject_check(refresh_token, user_id, email, name, roleNames, t) ==
    LET v == validate_token(refresh_token, "refresh", t)
    IN  IF ~v.ok
        THEN [ok |-> FALSE, error |-> v.error, token |-> MalformedToken]
        ELSE [ok |-> TRUE, error |-> "",
              token |-> generate_access_token(user_id, email, name, roleNames, NoDelta, t)]

\* refresh_access_token minting from what validate_token returned for the
\* refresh token instead of the supplied email, name and roles: what C20
\* rests on.
refresh_access_token_with_token_claims(refresh_token, user_id, email, name, roleNames, t) ==
    LET v == validate_token(refresh_token, "refresh", t)
    IN  IF ~v.ok
        THEN [ok |-> FALSE, error |-> v.error, token |-> MalformedToken]
        ELSE IF v.data.sub # user_id
        THEN [ok |-> FALSE, error |-> "Refresh token user ID mismatch",
              token |-> MalformedToken]
        ELSE [ok |-> TRUE, error |-> "",
              token |-> generate_access_token(user_id, v.data.email, v.data.name,
                                              v.data.roles, NoDelta, t)]

refresh_access_token(refresh_token, user_id, email, name, roleNames, t) ==
    LET v == validate_token(refresh_token, "refresh", t)
    IN  IF ~v.ok
        THEN [ok |-> FALSE, error |-> v.error, token |-> MalformedToken]
        ELSE IF v.data.sub # user_id
        THEN [ok |-> FALSE, error |-> "Refresh token user ID mismatch",
              token |-> MalformedToken]
        ELSE [ok |-> TRUE, error |-> "",
              token |-> generate_access_token(user_id, email, name, roleNames, NoDelta, t)]

\* get_token_expiry_seconds without max(0, ...): what C3 rests on.
get_token_expiry_seconds_without_floor(token, token_type, t) ==
    LET d == jwt_decode(token, PUBLIC_KEY, TOKEN_AUDIENCE, TOKEN_ISSUER, FALSE, t)
    IN  IF ~d.ok \/ "exp" \notin DOMAIN d.payload
        THEN [none |-> TRUE, seconds |-> 0]
        ELSE [none |-> FALSE, seconds |-> IntSeconds(d.payload.exp - t)]

\* get_token_expiry_seconds decoding with the expiry verified, an expired
\* token answered like an unparseable one: what C22 rests on.
get_token_expiry_seconds_verifying_exp(token, token_type, t) ==
    LET d == jwt_decode(token, PUBLIC_KEY, TOKEN_AUDIENCE, TOKEN_ISSUER, TRUE, t)
    IN  IF ~d.ok \/ "exp" \notin DOMAIN d.payload
        THEN [none |-> TRUE, seconds |-> 0]
        ELSE [none |-> FALSE, seconds |-> Max(0, IntSeconds(d.payload.exp - t))]

\* get_token_expiry_seconds: token_type is accepted and never read.
get_token_expiry_seconds(token, token_type, t) ==
    LET d == jwt_decode(token, PUBLIC_KEY, TOKEN_AUDIENCE, TOKEN_ISSUER, FALSE, t)
    IN  IF ~d.ok \/ "exp" \notin DOMAIN d.payload
        THEN [none |-> TRUE, seconds |-> 0]
        ELSE [none |-> FALSE, seconds |-> Max(0, IntSeconds(d.payload.exp - t))]

(***************************************************************************)
(* Inputs of the Token Service.                                            *)
(***************************************************************************)
Subjects == {"u1", "u2"}

\* The email, name and role names handed to refresh_access_token.
Profiles ==
    { [email |-> "a@gov.bc.ca", name |-> "A User", roles |-> <<>>],
      [email |-> "b@gov.bc.ca", name |-> "B User", roles |-> <<"admin", "reviewer">>] }

\* The email, name and role names access tokens are minted with.
MintProfiles ==
    { [email |-> "a@gov.bc.ca", name |-> "A User", roles |-> <<>>],
      [email |-> "b@gov.bc.ca", name |-> "B User", roles |-> <<"admin", "reviewer">>] }

ExpiresDeltas == {NoDelta, Delta(-1), Delta(2)}

TokenTypes == {"access", "refresh"}

\* What a caller can present for a minted token: the token itself, the same
\* payload signed with another key, and a token of another issuer or audience
\* verifiable with the service's key.
Presentable(tok) ==
    { tok,
      [tok EXCEPT !.key = "other-key"],
      [tok EXCEPT !.payload.iss = "another-api"],
      [tok EXCEPT !.payload.aud = "another-web"] }

Presented == {MalformedToken} \cup UNION {Presentable(tok) : tok \in tokens}

(***************************************************************************)
(* Token Service steps.                                                    *)
(***************************************************************************)
storeUnchanged == UNCHANGED <<users, roles, userRoles, auditLog, forms>>

\* No login callback is between two of its statements.
NoCallback ==
    [pc |-> "none", user_id |-> "", state |-> "", existed |-> FALSE, old |-> {},
     local_roles |-> {}, pending |-> {},
     working |-> [users |-> {}, userRoles |-> {}]]

loginUnchanged == UNCHANGED <<auth_states, secrets_drawn, callback>>

Tick ==
    /\ now < MaxTime
    /\ now' = now + 1
    /\ lastOp' = [op |-> "tick"]
    /\ UNCHANGED tokens
    /\ storeUnchanged
    /\ loginUnchanged

GenerateAccessToken ==
    \E sub \in Subjects, p \in MintProfiles, d \in ExpiresDeltas :
        LET tok == generate_access_token(sub, p.email, p.name, p.roles, d, now)
        IN  /\ Cardinality(tokens) < MaxTokens
            /\ tokens' = tokens \cup {tok}
            /\ lastOp' = [op |-> "generate_access_token", at |-> now,
                          user_id |-> sub, profile |-> p, expires_delta |-> d,
                          result |-> tok]
            /\ UNCHANGED now
            /\ storeUnchanged
            /\ loginUnchanged

GenerateRefreshToken ==
    \E sub \in Subjects, d \in ExpiresDeltas :
        LET tok == generate_refresh_token(sub, d, now)
        IN  /\ Cardinality(tokens) < MaxTokens
            /\ tokens' = tokens \cup {tok}
            /\ lastOp' = [op |-> "generate_refresh_token", at |-> now,
                          user_id |-> sub, expires_delta |-> d, result |-> tok]
            /\ UNCHANGED now
            /\ storeUnchanged
            /\ loginUnchanged

ValidateToken ==
    \E tok \in Presented, ty \in TokenTypes :
        /\ lastOp' = [op |-> "validate_token", at |-> now, token |-> tok,
                      token_type |-> ty, result |-> validate_token(tok, ty, now)]
        /\ UNCHANGED <<now, tokens>>
        /\ storeUnchanged
        /\ loginUnchanged

RefreshAccessToken ==
    \E tok \in Presented, sub \in Subjects, p \in Profiles :
        /\ lastOp' = [op |-> "refresh_access_token", at |-> now, token |-> tok,
                      user_id |-> sub, profile |-> p,
                      result |-> refresh_access_token(tok, sub, p.email, p.name,
                                                      p.roles, now)]
        /\ UNCHANGED <<now, tokens>>
        /\ storeUnchanged
        /\ loginUnchanged

GetTokenExpirySeconds ==
    \E tok \in Presented, ty \in TokenTypes :
        /\ lastOp' = [op |-> "get_token_expiry_seconds", at |-> now, token |-> tok,
                      token_type |-> ty,
                      result |-> get_token_expiry_seconds(tok, ty, now)]
        /\ UNCHANGED <<now, tokens>>
        /\ storeUnchanged
        /\ loginUnchanged

InitTok ==
    /\ now = 0
    /\ tokens = {}
    /\ users = {}
    /\ roles = << >>
    /\ userRoles = {}
    /\ auditLog = << >>
    /\ forms = << >>
    /\ auth_states = << >>
    /\ secrets_drawn = 0
    /\ callback = NoCallback
    /\ lastOp = [op |-> "none"]

NextTok ==
    \/ Tick
    \/ GenerateAccessToken
    \/ GenerateRefreshToken
    \/ ValidateToken
    \/ RefreshAccessToken
    \/ GetTokenExpirySeconds

SpecTok == InitTok /\ [][NextTok]_vars

(***************************************************************************)
(* Permission Catalog: backend/auth/permissions.py                         *)
(***************************************************************************)
Permission ==
    [FORM_CREATE |-> "form:create", FORM_READ |-> "form:read",
     FORM_EDIT |-> "form:edit", FORM_DELETE |-> "form:delete",
     FORM_ARCHIVE |-> "form:archive",
     FORM_SUBMIT_FOR_REVIEW |-> "form:submit_for_review",
     FORM_REVIEW |-> "form:review", FORM_APPROVE |-> "form:approve",
     FORM_PUBLISH |-> "form:publish",
     BUSINESS_AREA_CREATE |-> "business_area:create",
     BUSINESS_AREA_READ |-> "business_area:read",
     BUSINESS_AREA_EDIT |-> "business_area:edit",
     BUSINESS_AREA_DELETE |-> "business_area:delete",
     BUSINESS_AREA_MANAGE |-> "business_area:manage",
     CATEGORY_CREATE |-> "category:create", CATEGORY_READ |-> "category:read",
     CATEGORY_EDIT |-> "category:edit", CATEGORY_DELETE |-> "category:delete",
     USER_CREATE |-> "user:create", USER_READ |-> "user:read",
     USER_EDIT |-> "user:edit", USER_DELETE |-> "user:delete",
     USER_MANAGE_ROLES |-> "user:manage_roles",
     USER_MANAGE_PERMISSIONS |-> "user:manage_permissions",
     ROLE_CREATE |-> "role:create", ROLE_READ |-> "role:read",
     ROLE_EDIT |-> "role:edit", ROLE_DELETE |-> "role:delete",
     AUDIT_LOG_VIEW |-> "audit_log:view", AUDIT_LOG_EXPORT |-> "audit_log:export",
     REPORT_VIEW |-> "report:view",
     SYSTEM_CONFIG |-> "system:config", SYSTEM_HEALTH |-> "system:health"]

AllPermissions == {Permission[k] : k \in DOMAIN Permission}

\* get_inherited_permissions without the inheritance rules: what C8 rests on.
get_inherited_permissions_without_rules(permissions) == Range(permissions)

\* get_inherited_permissions(permissions: List[str]) -> Set[str]
get_inherited_permissions(permissions) ==
    LET result == Range(permissions)
        r1 == IF Permission.FORM_DELETE \in result
                 \/ "form:delete" \in Range(permissions)
              THEN result \cup {Permission.FORM_EDIT} ELSE result
        r2 == IF Permission.USER_MANAGE_ROLES \in r1
                 \/ "user:manage_roles" \in Range(permissions)
              THEN r1 \cup {Permission.USER_READ} ELSE r1
        r3 == IF Permission.BUSINESS_AREA_MANAGE \in r2
                 \/ "business_area:manage" \in Range(permissions)
              THEN r2 \cup {Permission.BUSINESS_AREA_READ} ELSE r2
    IN  r3

RESOURCE_ACTION_PERMISSIONS ==
    [forms |->
        [create |-> Permission.FORM_CREATE, read |-> Permission.FORM_READ,
         update |-> Permission.FORM_EDIT, delete |-> Permission.FORM_DELETE,
         archive |-> Permission.FORM_ARCHIVE,
         submit |-> Permission.FORM_SUBMIT_FOR_REVIEW,
         review |-> Permission.FORM_REVIEW, approve |-> Permission.FORM_APPROVE,
         publish |-> Permission.FORM_PUBLISH],
     business_areas |->
        [create |-> Permission.BUSINESS_AREA_CREATE,
         read |-> Permission.BUSINESS_AREA_READ,
         update |-> Permission.BUSINESS_AREA_EDIT,
         delete |-> Permission.BUSINESS_AREA_DELETE,
         manage |-> Permission.BUSINESS_AREA_MANAGE],
     categories |->
        [create |-> Permission.CATEGORY_CREATE, read |-> Permission.CATEGORY_READ,
         update |-> Permission.CATEGORY_EDIT, delete |-> Permission.CATEGORY_DELETE],
     users |->
        [create |-> Permission.USER_CREATE, read |-> Permission.USER_READ,
         update |-> Permission.USER_EDIT, delete |-> Permission.USER_DELETE,
         manage_roles |-> Permission.USER_MANAGE_ROLES,
         manage_permissions |-> Permission.USER_MANAGE_PERMISSIONS],
     roles |->
        [create |-> Permission.ROLE_CREATE, read |-> Permission.ROLE_READ,
         update |-> Permission.ROLE_EDIT, delete |-> Permission.ROLE_DELETE],
     audit |->
        [view |-> Permission.AUDIT_LOG_VIEW, export |-> Permission.AUDIT_LOG_EXPORT],
     reports |-> [view |-> Permission.REPORT_VIEW],
     system |->
        [config |-> Permission.SYSTEM_CONFIG, health |-> Permission.SYSTEM_HEALTH]]

\* get_permission_for_resource_action falling back to the read permission of
\* forms for a pair it does not know: what C16 rests on.
get_permission_for_resource_action_with_default(resource, action) ==
    IF resource \notin DOMAIN RESOURCE_ACTION_PERMISSIONS
    THEN [ok |-> TRUE, error |-> "", value |-> Permission.FORM_READ]
    ELSE IF action \notin DOMAIN RESOURCE_ACTION_PERMISSIONS[resource]
    THEN [ok |-> TRUE, error |-> "", value |-> Permission.FORM_READ]
    ELSE [ok |-> TRUE, error |-> "",
          value |-> RESOURCE_ACTION_PERMISSIONS[resource][action]]

\* get_permission_for_resource_action: the ValueError it raises is the error
\* of the result.
get_permission_for_resource_action(resource, action) ==
    IF resource \notin DOMAIN RESOURCE_ACTION_PERMISSIONS
    THEN [ok |-> FALSE, error |-> "Unknown resource", value |-> ""]
    ELSE IF action \notin DOMAIN RESOURCE_ACTION_PERMISSIONS[resource]
    THEN [ok |-> FALSE, error |-> "Unknown action", value |-> ""]
    ELSE [ok |-> TRUE, error |-> "",
          value |-> RESOURCE_ACTION_PERMISSIONS[resource][action]]

(***************************************************************************)
(* The role store: backend/models.py (User, Role, UserRole, AuditLog).     *)
(* Role.permissions is JSON: a list of permission strings, or a mapping    *)
(* keyed by them.  A row's deleted_at is modelled by its being set.        *)
(***************************************************************************)
PermList(items) == [kind |-> "list", items |-> items]
PermDict(keys) == [kind |-> "dict", items |-> keys]

Role(name, permissions) ==
    [name |-> name, permissions |-> permissions, is_active |-> TRUE,
     deleted_at |-> FALSE]

UserRole(user_id, role_id) ==
    [user_id |-> user_id, role_id |-> role_id, deleted_at |-> FALSE]

AuditLog(user_id, action, entity_type, entity_id, old_values, new_values) ==
    [user_id |-> user_id, action |-> action, entity_type |-> entity_type,
     entity_id |-> entity_id, old_values |-> old_values,
     new_values |-> new_values, deleted_at |-> FALSE]

\* A list of the elements of a set, as list(a_set) gives one.
RECURSIVE SetToSeq(_)
SetToSeq(S) ==
    IF S = {} THEN << >>
    ELSE LET x == CHOOSE y \in S : TRUE IN <<x>> \o SetToSeq(S \ {x})

\* The orders in which a query without ORDER BY can return a set of rows.
LoadOrders(rows) == {s \in [1..Cardinality(rows) -> rows] : Range(s) = rows}

(***************************************************************************)
(* Permission Resolver: backend/auth/authorization.py                      *)
(***************************************************************************)
\* The query without the deleted_at filter: what C6 rests on.
user_roles_query_with_revoked(user_id) ==
    {ur \in userRoles : ur.user_id = user_id}

\* db.query(UserRole).filter(user_id == ..., deleted_at IS NULL)
user_roles_query(user_id) ==
    {ur \in userRoles : ur.user_id = user_id /\ ~ur.deleted_at}

\* The loop body without the test of role.is_active and role.deleted_at: what
\* C5 rests on.
role_permissions_of_any_role(user_role) ==
    IF user_role.role_id \notin DOMAIN roles THEN {}
    ELSE LET role == roles[user_role.role_id]
         IN  IF role.permissions.kind = "list"
             THEN Range(role.permissions.items)
             ELSE IF role.permissions.kind = "dict"
             THEN Range(role.permissions.items)
             ELSE {}

\* One round of the loop over user_roles: what the row adds to
\* all_permissions.
role_permissions(user_role) ==
    IF user_role.role_id \notin DOMAIN roles THEN {}
    ELSE LET role == roles[user_role.role_id]
         IN  IF role.is_active /\ ~role.deleted_at
             THEN IF role.permissions.kind = "list"
                  THEN Range(role.permissions.items)
                  ELSE IF role.permissions.kind = "dict"
                  THEN Range(role.permissions.items)
                  ELSE {}
             ELSE {}

RECURSIVE collect_permissions(_, _)
collect_permissions(user_roles, n) ==
    IF n = 0 THEN {}
    ELSE collect_permissions(user_roles, n - 1) \cup role_permissions(user_roles[n])

\* get_user_permissions falling back to read access when it finds no
\* permission, instead of the empty set: what C7 rests on.
get_user_permissions_with_default(user_id, user_roles) ==
    LET all_permissions ==
            IF user_id \notin users THEN {}
            ELSE collect_permissions(user_roles, Len(user_roles))
    IN  IF all_permissions = {} THEN {Permission.FORM_READ}
        ELSE get_inherited_permissions(SetToSeq(all_permissions))

\* get_user_permissions(user_id, db); user_roles is the list the query
\* returned.
get_user_permissions(user_id, user_roles) ==
    IF user_id \notin users THEN {}
    ELSE LET all_permissions == collect_permissions(user_roles, Len(user_roles))
         IN  get_inherited_permissions(SetToSeq(all_permissions))

has_permission(user_id, permission, user_roles) ==
    permission \in get_user_permissions(user_id, user_roles)

\* has_any_permission with all() in place of any(): what C9 rests on.
has_any_permission_as_all(user_id, permissions, user_roles) ==
    LET user_permissions == get_user_permissions(user_id, user_roles)
    IN  \A i \in 1..Len(permissions) : permissions[i] \in user_permissions

has_any_permission(user_id, permissions, user_roles) ==
    LET user_permissions == get_user_permissions(user_id, user_roles)
    IN  \E i \in 1..Len(permissions) : permissions[i] \in user_permissions

has_all_permissions(user_id, permissions, user_roles) ==
    LET user_permissions == get_user_permissions(user_id, user_roles)
    IN  \A i \in 1..Len(permissions) : permissions[i] \in user_permissions

\* check_resource_permission without its `except ValueError`: what C30
\* rests on.
check_resource_permission_without_except(user_id, resource, action, user_roles) ==
    LET p == get_permission_for_resource_action(resource, action)
    IN  IF ~p.ok
        THEN [raised |-> TRUE, value |-> FALSE]
        ELSE [raised |-> FALSE,
              value |-> has_permission(user_id, p.value, user_roles)]

\* check_resource_permission(user_id, resource, action, db): raised tells
\* whether the call left by an exception.
check_resource_permission(user_id, resource, action, user_roles) ==
    LET p == get_permission_for_resource_action(resource, action)
    IN  IF ~p.ok
        THEN [raised |-> FALSE, value |-> FALSE]
        ELSE [raised |-> FALSE,
              value |-> has_permission(user_id, p.value, user_roles)]

(***************************************************************************)
(* is_admin(user, db).  queried tells whether the call read the user_roles *)
(* table; user_roles is the list that query returns.                       *)
(***************************************************************************)
\* is_admin deciding by the stored assignments alone, the role names of the
\* token not looked at: what C23 rests on.
is_admin_by_store(user, user_roles) ==
    [value |-> \E i \in 1..Len(user_roles) :
                   /\ user_roles[i].role_id \in DOMAIN roles
                   /\ roles[user_roles[i].role_id].is_active
                   /\ roles[user_roles[i].role_id].name = "admin",
     queried |-> TRUE]

is_admin(user, user_roles) ==
    IF "admin" \in Range(user.roles)
    THEN [value |-> TRUE, queried |-> FALSE]
    ELSE [value |-> \E i \in 1..Len(user_roles) :
                        /\ user_roles[i].role_id \in DOMAIN roles
                        /\ roles[user_roles[i].role_id].is_active
                        /\ roles[user_roles[i].role_id].name = "admin",
          queried |-> TRUE]

(***************************************************************************)
(* Audit Recorder: log_permission_check                                    *)
(***************************************************************************)
SENSITIVE_PERMISSIONS ==
    {Permission.USER_MANAGE_ROLES, Permission.USER_MANAGE_PERMISSIONS,
     Permission.ROLE_CREATE, Permission.ROLE_EDIT, Permission.ROLE_DELETE,
     Permission.SYSTEM_CONFIG, Permission.AUDIT_LOG_EXPORT}

\* log_permission_check recording sensitive permissions only, denials of
\* the others not: what C10 rests on.
log_permission_check_sensitive_only(user_id, permission, allowed, resource, action, insert_ok) ==
    IF permission \in SENSITIVE_PERMISSIONS
    THEN IF user_id \notin users
         THEN auditLog
         ELSE IF insert_ok
         THEN Append(auditLog,
                     AuditLog(user_id, "permission_check", "permission", permission,
                              << >>,
                              [permission |-> permission, resource |-> resource,
                               action |-> action, allowed |-> allowed]))
         ELSE auditLog
    ELSE auditLog

\* log_permission_check recording every check, allowed non-sensitive ones
\* too: what C12 rests on.
log_permission_check_every_check(user_id, permission, allowed, resource, action, insert_ok) ==
    IF user_id \notin users
    THEN auditLog
    ELSE IF insert_ok
    THEN Append(auditLog,
                AuditLog(user_id, "permission_check", "permission", permission,
                         << >>,
                         [permission |-> permission, resource |-> resource,
                          action |-> action, allowed |-> allowed]))
    ELSE auditLog

\* log_permission_check without the look-up of the user row, the insert
\* made for any id: what C14 rests on.
log_permission_check_without_user_check(user_id, permission, allowed, resource, action, insert_ok) ==
    IF ~allowed \/ permission \in SENSITIVE_PERMISSIONS
    THEN IF insert_ok
         THEN Append(auditLog,
                     AuditLog(user_id, "permission_check", "permission", permission,
                              << >>,
                              [permission |-> permission, resource |-> resource,
                               action |-> action, allowed |-> allowed]))
         ELSE auditLog
    ELSE auditLog

\* The audit_logs table after log_permission_check(user_id, permission,
\* allowed, resource, action, db=db).  insert_ok tells whether db.add /
\* db.commit succeed; when they raise, the insert is rolled back and the
\* exception swallowed.
log_permission_check(user_id, permission, allowed, resource, action, insert_ok) ==
    IF ~allowed \/ permission \in SENSITIVE_PERMISSIONS
    THEN IF user_id \notin users
         THEN auditLog
         ELSE IF insert_ok
         THEN Append(auditLog,
                     AuditLog(user_id, "permission_check", "permission", permission,
                              << >>,
                              [permission |-> permission, resource |-> resource,
                               action |-> action, allowed |-> allowed]))
         ELSE auditLog
    ELSE auditLog

(***************************************************************************)
(* Authorization Gate: require_permission, require_any_permission,         *)
(* require_all_permissions.  The HTTPException a dependency raises is the  *)
(* status and detail of its result; status 200 stands for returning user.  *)
(***************************************************************************)
RECURSIVE Join(_, _)
Join(sep, strs) ==
    IF Len(strs) = 0 THEN ""
    ELSE IF Len(strs) = 1 THEN strs[1]
    ELSE strs[1] \o sep \o Join(sep, Tail(strs))

\* calls lists the log_permission_check calls the dependency made before it
\* returned or raised, log is the audit_logs table it leaves.
Allow(user, log, calls) ==
    [status |-> 200, user |-> user, detail |-> "", log |-> log, calls |-> calls]

Raise(status_code, detail, log, calls) ==
    [status |-> status_code, user |-> NoTokenData, detail |-> detail, log |-> log,
     calls |-> calls]

LogCall(permission, allowed) == [permission |-> permission, allowed |-> allowed]

\* check_permission deciding by the role names the presented token carries
\* instead of the stored role data: what C4 rests on.
require_permission_by_token_roles(resource, action, user, user_roles, insert_ok) ==
    LET p == get_permission_for_resource_action(resource, action)
    IN  IF ~p.ok
        THEN Raise(500, "Configuration error: " \o p.error, auditLog, << >>)
        ELSE LET permission == p.value
                 has_perm == user.roles # << >>
                 log == log_permission_check(user.sub, permission, has_perm,
                                             resource, action, insert_ok)
                 calls == <<LogCall(permission, has_perm)>>
             IN  IF ~has_perm
                 THEN Raise(403, "Insufficient permissions. Required: "
                                   \o resource \o ":" \o action, log, calls)
                 ELSE Allow(user, log, calls)

\* check_permission answering a pair the catalog does not know with a
\* denial: what C17 rests on.
require_permission_denying_unknown_pair(resource, action, user, user_roles, insert_ok) ==
    LET p == get_permission_for_resource_action(resource, action)
    IN  IF ~p.ok
        THEN Raise(403, "Insufficient permissions. Required: "
                          \o resource \o ":" \o action, auditLog, << >>)
        ELSE LET permission == p.value
                 has_perm == has_permission(user.sub, permission, user_roles)
                 log == log_permission_check(user.sub, permission, has_perm,
                                             resource, action, insert_ok)
                 calls == <<LogCall(permission, has_perm)>>
             IN  IF ~has_perm
                 THEN Raise(403, "Insufficient permissions. Required: "
                                   \o resource \o ":" \o action, log, calls)
                 ELSE Allow(user, log, calls)

\* check_permission letting a token that names the admin role through
\* without asking the store: what C29 rests on.
require_permission_trusting_admin_claim(resource, action, user, user_roles, insert_ok) ==
    LET p == get_permission_for_resource_action(resource, action)
    IN  IF ~p.ok
        THEN Raise(500, "Configuration error: " \o p.error, auditLog, << >>)
        ELSE LET permission == p.value
                 has_perm == \/ "admin" \in Range(user.roles)
                             \/ has_permission(user.sub, permission, user_roles)
                 log == log_permission_check(user.sub, permission, has_perm,
                                             resource, action, insert_ok)
                 calls == <<LogCall(permission, has_perm)>>
             IN  IF ~has_perm
                 THEN Raise(403, "Insufficient permissions. Required: "
                                   \o resource \o ":" \o action, log, calls)
                 ELSE Allow(user, log, calls)

\* check_permission of require_permission(resource, action)
require_permission(resource, action, user, user_roles, insert_ok) ==
    LET p == get_permission_for_resource_action(resource, action)
    IN  IF ~p.ok
        THEN Raise(500, "Configuration error: " \o p.error, auditLog, << >>)
        ELSE LET permission == p.value
                 has_perm == has_permission(user.sub, permission, user_roles)
                 log == log_permission_check(user.sub, permission, has_perm,
                                             resource, action, insert_ok)
                 calls == <<LogCall(permission, has_perm)>>
             IN  IF ~has_perm
                 THEN Raise(403, "Insufficient permissions. Required: "
                                   \o resource \o ":" \o action, log, calls)
                 ELSE Allow(user, log, calls)

\* check_permissions of require_any_permission(*permissions)
require_any_permission(permissions, user, user_roles, insert_ok) ==
    LET has_perm == has_any_permission(user.sub, permissions, user_roles)
    IN  IF ~has_perm
        THEN Raise(403, "Insufficient permissions. Required one of: "
                          \o Join(", ", permissions),
                   log_permission_check(user.sub, Join("|", permissions), FALSE,
                                        "None", "None", insert_ok),
                   <<LogCall(Join("|", permissions), FALSE)>>)
        ELSE Allow(user,
                   log_permission_check(user.sub, Join("|", permissions), TRUE,
                                        "None", "None", insert_ok),
                   <<LogCall(Join("|", permissions), TRUE)>>)

\* check_permissions of require_all_permissions(*permissions)
require_all_permissions(permissions, user, user_roles, insert_ok) ==
    LET has_perm == has_all_permissions(user.sub, permissions, user_roles)
    IN  IF ~has_perm
        THEN Raise(403, "Insufficient permissions. Required all of: "
                          \o Join(", ", permissions),
                   log_permission_check(user.sub, Join("&", permissions), FALSE,
                                        "None", "None", insert_ok),
                   <<LogCall(Join("&", permissions), FALSE)>>)
        ELSE Allow(user,
                   log_permission_check(user.sub, Join("&", permissions), TRUE,
                                        "None", "None", insert_ok),
                   <<LogCall(Join("&", permissions), TRUE)>>)

(***************************************************************************)
(* Inputs of the resolver and the gate.                                    *)
(***************************************************************************)
UserIds == {"u1", "u2"}

RoleIds == {"r1", "r2"}

\* The principals get_current_user hands to the gate: the TokenData of a
\* valid access token, whose role names were embedded when it was minted.
Principals ==
    { TokenData("u1", "a@gov.bc.ca", "A User", << >>, "access"),
      TokenData("u1", "a@gov.bc.ca", "A User", <<"reviewer", "records_clerk">>, "access"),
      TokenData("u2", "b@gov.bc.ca", "B User", <<"records_clerk">>, "access") }

GatePairs ==
    { <<"forms", "update">>, <<"forms", "read">>, <<"users", "manage_roles">>,
      <<"unknown", "read">>, <<"forms", "fly">> }

GateLists ==
    { << >>,
      <<Permission.FORM_EDIT>>,
      <<Permission.USER_MANAGE_ROLES>>,
      <<Permission.FORM_READ, Permission.FORM_CREATE>>,
      <<Permission.FORM_EDIT, Permission.USER_MANAGE_ROLES>> }

ListPermissions ==
    {Permission.FORM_READ, Permission.FORM_CREATE, Permission.FORM_REVIEW}

PermissionLists == SeqsUpTo(ListPermissions, MaxLen)

CheckPermissions ==
    {Permission.FORM_READ, Permission.FORM_CREATE, Permission.FORM_EDIT,
     Permission.FORM_DELETE, Permission.USER_READ, Permission.USER_MANAGE_ROLES,
     Permission.BUSINESS_AREA_READ, Permission.SYSTEM_CONFIG}

tokenUnchanged == UNCHANGED <<now, tokens>>

formsUnchanged == UNCHANGED forms

(***************************************************************************)
(* The persistence collaborator: edits of roles and role assignments,      *)
(* each committed as one transaction.                                      *)
(***************************************************************************)
AssignRole ==
    \E u \in users, r \in DOMAIN roles :
        /\ ~\E ur \in userRoles : ur.user_id = u /\ ur.role_id = r
        /\ userRoles' = userRoles \cup {UserRole(u, r)}
        /\ lastOp' = [op |-> "assign_role", user_id |-> u, role_id |-> r]
        /\ UNCHANGED <<users, roles, auditLog>>
        /\ tokenUnchanged
        /\ loginUnchanged
        /\ formsUnchanged

RevokeAssignment ==
    \E ur \in userRoles :
        /\ ~ur.deleted_at
        /\ userRoles' = (userRoles \ {ur}) \cup {[ur EXCEPT !.deleted_at = TRUE]}
        /\ lastOp' = [op |-> "revoke_assignment", user_id |-> ur.user_id,
                      role_id |-> ur.role_id]
        /\ UNCHANGED <<users, roles, auditLog>>
        /\ tokenUnchanged
        /\ loginUnchanged
        /\ formsUnchanged

DeactivateRole ==
    \E r \in DOMAIN roles :
        /\ roles[r].is_active
        /\ roles' = [roles EXCEPT ![r].is_active = FALSE]
        /\ lastOp' = [op |-> "deactivate_role", role_id |-> r]
        /\ UNCHANGED <<users, userRoles, auditLog>>
        /\ tokenUnchanged
        /\ loginUnchanged
        /\ formsUnchanged

SoftDeleteRole ==
    \E r \in DOMAIN roles :
        /\ ~roles[r].deleted_at
        /\ roles' = [roles EXCEPT ![r].deleted_at = TRUE]
        /\ lastOp' = [op |-> "soft_delete_role", role_id |-> r]
        /\ UNCHANGED <<users, userRoles, auditLog>>
        /\ tokenUnchanged
        /\ loginUnchanged
        /\ formsUnchanged

(***************************************************************************)
(* Resolver calls.                                                         *)
(***************************************************************************)
GetUserPermissions ==
    \E u \in UserIds :
      \E user_roles \in LoadOrders(user_roles_query(u)) :
        /\ lastOp' = [op |-> "get_user_permissions", user_id |-> u,
                      result |-> get_user_permissions(u, user_roles)]
        /\ UNCHANGED <<users, roles, userRoles, auditLog>>
        /\ tokenUnchanged
        /\ loginUnchanged
        /\ formsUnchanged

HasPermission ==
    \E u \in UserIds, permission \in CheckPermissions :
      \E user_roles \in LoadOrders(user_roles_query(u)) :
        /\ lastOp' = [op |-> "has_permission", user_id |-> u,
                      permission |-> permission,
                      result |-> has_permission(u, permission, user_roles)]
        /\ UNCHANGED <<users, roles, userRoles, auditLog>>
        /\ tokenUnchanged
        /\ loginUnchanged
        /\ formsUnchanged

HasAnyPermission ==
    \E u \in UserIds, permissions \in PermissionLists :
      \E user_roles \in LoadOrders(user_roles_query(u)) :
        /\ lastOp' = [op |-> "has_any_permission", user_id |-> u,
                      permissions |-> permissions,
                      result |-> has_any_permission(u, permissions, user_roles)]
        /\ UNCHANGED <<users, roles, userRoles, auditLog>>
        /\ tokenUnchanged
        /\ loginUnchanged
        /\ formsUnchanged

HasAllPermissions ==
    \E u \in UserIds, permissions \in PermissionLists :
      \E user_roles \in LoadOrders(user_roles_query(u)) :
        /\ lastOp' = [op |-> "has_all_permissions", user_id |-> u,
                      permissions |-> permissions,
                      result |-> has_all_permissions(u, permissions, user_roles)]
        /\ UNCHANGED <<users, roles, userRoles, auditLog>>
        /\ tokenUnchanged
        /\ loginUnchanged
        /\ formsUnchanged

(***************************************************************************)
(* Gate calls: one protected request each.                                 *)
(***************************************************************************)
RequirePermissionOf(principals, pairs, max_audit) ==
    \E user \in principals, ra \in pairs, insert_ok \in BOOLEAN :
      \E user_roles \in LoadOrders(user_roles_query(user.sub)) :
        LET res == require_permission(ra[1], ra[2], user, user_roles, insert_ok)
        IN  /\ Len(auditLog) < max_audit
            /\ auditLog' = res.log
            /\ lastOp' = [op |-> "require_permission", user |-> user,
                          resource |-> ra[1], action |-> ra[2],
                          insert_ok |-> insert_ok, status |-> res.status,
                          returned |-> res.user, detail |-> res.detail,
                          calls |-> res.calls]
            /\ UNCHANGED <<users, roles, userRoles>>
            /\ tokenUnchanged
            /\ loginUnchanged
            /\ formsUnchanged

RequireAnyPermissionOf(principals, lists, max_audit) ==
    \E user \in principals, permissions \in lists, insert_ok \in BOOLEAN :
      \E user_roles \in LoadOrders(user_roles_query(user.sub)) :
        LET res == require_any_permission(permissions, user, user_roles, insert_ok)
        IN  /\ Len(auditLog) < max_audit
            /\ auditLog' = res.log
            /\ lastOp' = [op |-> "require_any_permission", user |-> user,
                          permissions |-> permissions,
                          insert_ok |-> insert_ok, status |-> res.status,
                          returned |-> res.user, detail |-> res.detail,
                          calls |-> res.calls]
            /\ UNCHANGED <<users, roles, userRoles>>
            /\ tokenUnchanged
            /\ loginUnchanged
            /\ formsUnchanged

RequireAllPermissionsOf(principals, lists, max_audit) ==
    \E user \in principals, permissions \in lists, insert_ok \in BOOLEAN :
      \E user_roles \in LoadOrders(user_roles_query(user.sub)) :
        LET res == require_all_permissions(permissions, user, user_roles, insert_ok)
        IN  /\ Len(auditLog) < max_audit
            /\ auditLog' = res.log
            /\ lastOp' = [op |-> "require_all_permissions", user |-> user,
                          permissions |-> permissions,
                          insert_ok |-> insert_ok, status |-> res.status,
                          returned |-> res.user, detail |-> res.detail,
                          calls |-> res.calls]
            /\ UNCHANGED <<users, roles, userRoles>>
            /\ tokenUnchanged
            /\ loginUnchanged
            /\ formsUnchanged

RequirePermission == RequirePermissionOf(Principals, GatePairs, MaxAudit)

RequireAnyPermission == RequireAnyPermissionOf(Principals, GateLists, MaxAudit)

RequireAllPermissions == RequireAllPermissionsOf(Principals, GateLists, MaxAudit)

(***************************************************************************)
(* The database session FormService works through: what is committed, and  *)
(* the session's working state with its changes not yet committed.         *)
(***************************************************************************)
\* The session handed to a request (get_db): nothing pending.
db_session ==
    [committed |-> [forms |-> forms, auditLog |-> auditLog],
     working   |-> [forms |-> forms, auditLog |-> auditLog]]

db_commit(db) == [committed |-> db.working, working |-> db.working]

db_rollback(db) == [committed |-> db.committed, working |-> db.committed]

\* db.add(audit_entry)
db_add_audit(db, entry) ==
    [db EXCEPT !.working.auditLog = Append(@, entry)]

\* db.add(form), or an attribute of a loaded form set
db_put_form(db, form_id, row) ==
    [db EXCEPT !.working.forms =
        [f \in DOMAIN @ \cup {form_id} |-> IF f = form_id THEN row ELSE @[f]]]

(***************************************************************************)
(* FormService: backend/services/forms.py.  A handler's result is the      *)
(* session it leaves and the value it returns.                             *)
(***************************************************************************)
Form(title, created_by_id) ==
    [title |-> title, status |-> "draft", deleted_at |-> FALSE,
     created_by_id |-> created_by_id]

NoValues == [none |-> TRUE]

Returned(db, value) == [db |-> db, none |-> FALSE, value |-> value]

ReturnedNone(db) == [db |-> db, none |-> TRUE, value |-> FALSE]

\* FormService._audit_log: insert_ok tells whether db.add / db.commit
\* succeed; when they raise, the insert is rolled back and the exception
\* swallowed.
FormService_audit_log(db, entity_type, entity_id, action, user_id, old_values, new_values, insert_ok) ==
    LET added == db_add_audit(db, AuditLog(user_id, action, entity_type,
                                           entity_id, old_values, new_values))
    IN  IF insert_ok THEN db_commit(added) ELSE db_rollback(added)

\* FormService.get_form_by_id: the form is there and not soft-deleted.
get_form_by_id(db, form_id) ==
    /\ form_id \in DOMAIN db.working.forms
    /\ ~db.working.forms[form_id].deleted_at

\* FormService.create_form, without business areas.
create_form(db, form_id, title, created_by_id, insert_ok) ==
    LET d1 == db_commit(db_put_form(db, form_id, Form(title, created_by_id)))
        d2 == FormService_audit_log(d1, "forms", form_id, "CREATE", created_by_id,
                                    NoValues,
                                    [id |-> form_id, title |-> title], insert_ok)
    IN  Returned(d2, form_id)

\* FormService.update_form(db, form_id, updated_by_id, title=title)
update_form(db, form_id, updated_by_id, title, insert_ok) ==
    IF ~get_form_by_id(db, form_id) THEN ReturnedNone(db)
    ELSE LET form == db.working.forms[form_id]
             d1 == db_commit(db_put_form(db, form_id, [form EXCEPT !.title = title]))
             d2 == FormService_audit_log(d1, "forms", form_id, "UPDATE",
                                         updated_by_id, [title |-> form.title],
                                         [title |-> title], insert_ok)
         IN  Returned(d2, form_id)

\* delete_form with the soft delete left to be committed together with the
\* audit entry: what C13 rests on.
delete_form_committed_with_audit(db, form_id, deleted_by_id, insert_ok) ==
    IF ~get_form_by_id(db, form_id) THEN Returned(db, FALSE)
    ELSE LET form == db.working.forms[form_id]
             d1 == db_put_form(db, form_id, [form EXCEPT !.deleted_at = TRUE])
             d2 == FormService_audit_log(d1, "forms", form_id, "DELETE",
                                         deleted_by_id, [status |-> form.status],
                                         [deleted_at |-> TRUE], insert_ok)
         IN  Returned(d2, TRUE)

\* delete_form soft-deleting the audit entries of the form with it: what
\* C15 rests on.
delete_form_soft_deleting_audit(db, form_id, deleted_by_id, insert_ok) ==
    IF ~get_form_by_id(db, form_id) THEN Returned(db, FALSE)
    ELSE LET form == db.working.forms[form_id]
             d0 == [db EXCEPT !.working.auditLog =
                        [i \in DOMAIN @ |->
                            IF @[i].entity_id = form_id
                            THEN [@[i] EXCEPT !.deleted_at = TRUE] ELSE @[i]]]
             d1 == db_commit(db_put_form(d0, form_id,
                                         [form EXCEPT !.deleted_at = TRUE]))
             d2 == FormService_audit_log(d1, "forms", form_id, "DELETE",
                                         deleted_by_id, [status |-> form.status],
                                         [deleted_at |-> TRUE], insert_ok)
         IN  Returned(d2, TRUE)

\* FormService.delete_form
delete_form(db, form_id, deleted_by_id, insert_ok) ==
    IF ~get_form_by_id(db, form_id) THEN Returned(db, FALSE)
    ELSE LET form == db.working.forms[form_id]
             d1 == db_commit(db_put_form(db, form_id,
                                         [form EXCEPT !.deleted_at = TRUE]))
             d2 == FormService_audit_log(d1, "forms", form_id, "DELETE",
                                         deleted_by_id, [status |-> form.status],
                                         [deleted_at |-> TRUE], insert_ok)
         IN  Returned(d2, TRUE)

\* FormService.archive_form; the FormWorkflow row it commits next is not a
\* table of this model.
archive_form(db, form_id, archived_by_id, insert_ok) ==
    IF ~get_form_by_id(db, form_id) THEN ReturnedNone(db)
    ELSE LET form == db.working.forms[form_id]
             d1 == db_commit(db_put_form(db, form_id,
                                         [form EXCEPT !.status = "archived"]))
             d2 == db_commit(d1)
             d3 == FormService_audit_log(d2, "forms", form_id, "UPDATE",
                                         archived_by_id, [status |-> form.status],
                                         [status |-> "archived"], insert_ok)
         IN  Returned(d3, form_id)

\* FormService.unarchive_form
unarchive_form(db, form_id, unarchived_by_id, insert_ok) ==
    IF ~get_form_by_id(db, form_id) THEN ReturnedNone(db)
    ELSE IF db.working.forms[form_id].status # "archived" THEN ReturnedNone(db)
    ELSE LET form == db.working.forms[form_id]
             d1 == db_commit(db_put_form(db, form_id,
                                         [form EXCEPT !.status = "published"]))
             d2 == db_commit(d1)
             d3 == FormService_audit_log(d2, "forms", form_id, "UPDATE",
                                         unarchived_by_id, [status |-> form.status],
                                         [status |-> "published"], insert_ok)
         IN  Returned(d3, form_id)

(***************************************************************************)
(* FormService calls: one request each.  What the session has committed    *)
(* when the handler returns is the new content of the tables.              *)
(***************************************************************************)
FormIds == {"f1"}

FormMutations == {"create_form", "update_form", "delete_form", "archive_form",
                  "unarchive_form"}

FormCall(name, res, form_id, user_id, insert_ok, max_audit) ==
    /\ Len(auditLog) < max_audit
    /\ forms' = res.db.committed.forms
    /\ auditLog' = res.db.committed.auditLog
    /\ lastOp' = [op |-> name, form_id |-> form_id, user_id |-> user_id,
                  insert_ok |-> insert_ok, none |-> res.none,
                  value |-> res.value]
    /\ UNCHANGED <<users, roles, userRoles>>
    /\ tokenUnchanged
    /\ loginUnchanged

\* created_by_id is a foreign key that may not be null: the form of a user
\* without a row cannot be committed.
CreateFormOf(max_audit) ==
    \E form_id \in FormIds \ DOMAIN forms, u \in users, insert_ok \in BOOLEAN :
        FormCall("create_form",
                 create_form(db_session, form_id, "t1", u, insert_ok),
                 form_id, u, insert_ok, max_audit)

UpdateFormOf(max_audit) ==
    \E form_id \in FormIds, u \in users, insert_ok \in BOOLEAN :
        FormCall("update_form",
                 update_form(db_session, form_id, u, "t2", insert_ok),
                 form_id, u, insert_ok, max_audit)

DeleteFormOf(max_audit) ==
    \E form_id \in FormIds, u \in users, insert_ok \in BOOLEAN :
        FormCall("delete_form",
                 delete_form(db_session, form_id, u, insert_ok),
                 form_id, u, insert_ok, max_audit)

ArchiveFormOf(max_audit) ==
    \E form_id \in FormIds, u \in users, insert_ok \in BOOLEAN :
        FormCall("archive_form",
                 archive_form(db_session, form_id, u, insert_ok),
                 form_id, u, insert_ok, max_audit)

UnarchiveFormOf(max_audit) ==
    \E form_id \in FormIds, u \in users, insert_ok \in BOOLEAN :
        FormCall("unarchive_form",
                 unarchive_form(db_session, form_id, u, insert_ok),
                 form_id, u, insert_ok, max_audit)

CreateForm == CreateFormOf(MaxAudit)

UpdateForm == UpdateFormOf(MaxAudit)

DeleteForm == DeleteFormOf(MaxAudit)

ArchiveForm == ArchiveFormOf(MaxAudit)

UnarchiveForm == UnarchiveFormOf(MaxAudit)

(***************************************************************************)
(* A direct call of the Audit Recorder.                                    *)
(***************************************************************************)
RecordedPermissions == {Permission.FORM_READ, Permission.USER_MANAGE_ROLES}

\* log_permission_check returns None on every path: its insert runs inside
\* try / except Exception.
LogPermissionCheckOf(user_ids, permissions, max_audit) ==
    \E u \in user_ids, permission \in permissions,
       allowed \in BOOLEAN, insert_ok \in BOOLEAN :
        /\ Len(auditLog) < max_audit
        /\ auditLog' = log_permission_check(u, permission, allowed, "None", "None",
                                            insert_ok)
        /\ lastOp' = [op |-> "log_permission_check", user_id |-> u,
                      permission |-> permission, allowed |-> allowed,
                      insert_ok |-> insert_ok, raised |-> FALSE]
        /\ UNCHANGED <<users, roles, userRoles>>
        /\ tokenUnchanged
        /\ loginUnchanged
        /\ formsUnchanged

LogPermissionCheck == LogPermissionCheckOf(UserIds, RecordedPermissions, MaxAudit)

(***************************************************************************)
(* Role seeding: backend/seeds/default_roles.py                            *)
(***************************************************************************)
DEFAULT_ROLES ==
    [admin |->
        <<Permission.FORM_CREATE, Permission.FORM_READ, Permission.FORM_EDIT,
          Permission.FORM_DELETE, Permission.FORM_ARCHIVE,
          Permission.FORM_SUBMIT_FOR_REVIEW, Permission.FORM_REVIEW,
          Permission.FORM_APPROVE, Permission.FORM_PUBLISH,
          Permission.BUSINESS_AREA_CREATE, Permission.BUSINESS_AREA_READ,
          Permission.BUSINESS_AREA_EDIT, Permission.BUSINESS_AREA_DELETE,
          Permission.BUSINESS_AREA_MANAGE,
          Permission.CATEGORY_CREATE, Permission.CATEGORY_READ,
          Permission.CATEGORY_EDIT, Permission.CATEGORY_DELETE,
          Permission.USER_CREATE, Permission.USER_READ, Permission.USER_EDIT,
          Permission.USER_DELETE, Permission.USER_MANAGE_ROLES,
          Permission.USER_MANAGE_PERMISSIONS,
          Permission.ROLE_CREATE, Permission.ROLE_READ, Permission.ROLE_EDIT,
          Permission.ROLE_DELETE,
          Permission.AUDIT_LOG_VIEW, Permission.AUDIT_LOG_EXPORT,
          Permission.REPORT_VIEW,
          Permission.SYSTEM_CONFIG, Permission.SYSTEM_HEALTH>>,
     staff_manager |->
        <<Permission.FORM_CREATE, Permission.FORM_READ, Permission.FORM_EDIT,
          Permission.FORM_DELETE, Permission.FORM_ARCHIVE,
          Permission.FORM_SUBMIT_FOR_REVIEW, Permission.FORM_REVIEW,
          Permission.FORM_APPROVE,
          Permission.BUSINESS_AREA_READ, Permission.BUSINESS_AREA_MANAGE,
          Permission.CATEGORY_READ, Permission.USER_READ,
          Permission.AUDIT_LOG_VIEW, Permission.REPORT_VIEW>>,
     reviewer |->
        <<Permission.FORM_READ, Permission.FORM_REVIEW, Permission.FORM_APPROVE,
          Permission.BUSINESS_AREA_READ, Permission.CATEGORY_READ,
          Permission.AUDIT_LOG_VIEW>>,
     staff_viewer |->
        <<Permission.FORM_READ, Permission.BUSINESS_AREA_READ,
          Permission.CATEGORY_READ>>]

\* DEFAULT_ROLES.items(), in the order the dict is written
DefaultRoleNames == <<"admin", "staff_manager", "reviewer", "staff_viewer">>

\* The id (a fresh uuid4) of the role row created for a default role.
NewRoleId(name) == "role_" \o name

\* The round without the look-up of an existing role, every default role
\* inserted anew: what C24 rests on.
seed_role_without_lookup(acc, name) ==
    LET taken == {r \in DOMAIN acc.roles : acc.roles[r].name = name}
    IN  IF taken # {}
        THEN [acc EXCEPT !.failed = @ + 1]
        ELSE [acc EXCEPT !.roles =
                            [r \in DOMAIN @ \cup {NewRoleId(name)} |->
                                IF r = NewRoleId(name)
                                THEN Role(name, PermList(DEFAULT_ROLES[name]))
                                ELSE @[r]],
                         !.created = @ + 1]

\* One round of the loop of seed_default_roles.  Role.name is unique: the
\* insert of a name a soft-deleted row still holds raises IntegrityError and
\* is rolled back.
seed_role(acc, name) ==
    LET existing == {r \in DOMAIN acc.roles :
                        acc.roles[r].name = name /\ ~acc.roles[r].deleted_at}
        taken == {r \in DOMAIN acc.roles : acc.roles[r].name = name}
    IN  IF existing # {}
        THEN LET r == CHOOSE x \in existing : TRUE
             IN  [acc EXCEPT !.roles[r].permissions = PermList(DEFAULT_ROLES[name]),
                             !.roles[r].is_active = TRUE,
                             !.updated = @ + 1]
        ELSE IF taken # {}
        THEN [acc EXCEPT !.failed = @ + 1]
        ELSE [acc EXCEPT !.roles =
                            [r \in DOMAIN @ \cup {NewRoleId(name)} |->
                                IF r = NewRoleId(name)
                                THEN Role(name, PermList(DEFAULT_ROLES[name]))
                                ELSE @[r]],
                         !.created = @ + 1]

RECURSIVE seed_roles(_, _)
seed_roles(acc, n) ==
    IF n = 0 THEN acc
    ELSE seed_role(seed_roles(acc, n - 1), DefaultRoleNames[n])

seed_default_roles ==
    seed_roles([roles |-> roles, created |-> 0, updated |-> 0, failed |-> 0],
               Len(DefaultRoleNames))

SeedDefaultRoles ==
    LET results == seed_default_roles
    IN  /\ roles' = results.roles
        /\ lastOp' = [op |-> "seed_default_roles", created |-> results.created,
                      updated |-> results.updated, failed |-> results.failed]
        /\ UNCHANGED <<users, userRoles, auditLog>>
        /\ tokenUnchanged
        /\ loginUnchanged
        /\ formsUnchanged

(***************************************************************************)
(* Login: auth_callback of backend/routes/auth.py                          *)
(***************************************************************************)
role_mapping ==
    [admin |-> "admin", staff_manager |-> "staff_manager",
     reviewer |-> "reviewer", staff_viewer |-> "staff_viewer",
     administrator |-> "admin", manager |-> "staff_manager",
     approver |-> "reviewer", viewer |-> "staff_viewer"]

\* str.lower() on the role names KeyCloak sends in this model
lower(str) ==
    CASE str = "Approver" -> "approver"
      [] str = "ADMIN" -> "admin"
      [] OTHER -> str

RECURSIVE map_keycloak_roles_to_local(_)
map_keycloak_roles_to_local(keycloak_roles) ==
    IF keycloak_roles = << >> THEN << >>
    ELSE LET n == Len(keycloak_roles)
             local_roles == map_keycloak_roles_to_local(SubSeq(keycloak_roles, 1, n - 1))
             key == lower(keycloak_roles[n])
         IN  IF key \in DOMAIN role_mapping
                /\ role_mapping[key] \notin Range(local_roles)
             THEN Append(local_roles, role_mapping[key])
             ELSE local_roles

KeycloakRoleLists ==
    { << >>, <<"reviewer", "Approver">>, <<"ADMIN", "unknown">> }

\* secrets.token_urlsafe(32): the next value of a source that never repeats
\* one; pool lists the values it returns, in order.
token_urlsafe(pool, drawn) == pool[drawn + 1]

\* generate_state with the value token_urlsafe returned: _auth_states after
\* the call; the value itself is returned.
generate_state(state) ==
    [s \in DOMAIN auth_states \cup {state} |->
        IF s = state THEN [purpose |-> "login"] ELSE auth_states[s]]

\* validate_state without the pop, the state left for the next request:
\* what C25 rests on.
validate_state_without_pop(state) ==
    IF state \in DOMAIN auth_states
    THEN [value |-> TRUE, auth_states |-> auth_states]
    ELSE [value |-> FALSE, auth_states |-> auth_states]

\* validate_state(state): the value returned and _auth_states after the call
validate_state(state) ==
    IF state \in DOMAIN auth_states
    THEN [value |-> TRUE,
          auth_states |-> [s \in DOMAIN auth_states \ {state} |-> auth_states[s]]]
    ELSE [value |-> FALSE, auth_states |-> auth_states]

\* The state values a callback request can carry: the values of the source,
\* returned already or not, and one it never returns.
PresentedStates(pool) == Range(pool) \cup {"forged"}

LoginStates == <<"s1", "s2">>

AuditStates == <<"s1">>

\* GET /auth/login: generate_state, then the redirect to KeyCloak with the
\* state in its query.
LoginOf(pool) ==
    /\ secrets_drawn < Len(pool)
    /\ LET state == token_urlsafe(pool, secrets_drawn)
       IN  /\ auth_states' = generate_state(state)
           /\ secrets_drawn' = secrets_drawn + 1
           /\ UNCHANGED callback
           /\ lastOp' = [op |-> "login", state |-> state, status |-> 302]
    /\ storeUnchanged
    /\ tokenUnchanged

\* A direct call of validate_state.
ValidateStateOf(pool) ==
    \E state \in PresentedStates(pool) :
        LET v == validate_state(state)
        IN  /\ auth_states' = v.auth_states
            /\ lastOp' = [op |-> "validate_state", state |-> state,
                          result |-> v.value]
            /\ UNCHANGED <<secrets_drawn, callback>>
            /\ storeUnchanged
            /\ tokenUnchanged

\* auth_callback once KeyCloak has answered: validate_state consumes the
\* state; the user row is found by email or created, the user's assignment
\* rows are deleted and one row per local role found by name is inserted,
\* all in one commit.
AuthCallbackOf(user_ids, role_lists, pool) ==
    \E u \in user_ids, keycloak_roles \in role_lists,
       state \in PresentedStates(pool) :
        LET v == validate_state(state)
            mapped == map_keycloak_roles_to_local(keycloak_roles)
            local_role_names == IF mapped = << >> THEN <<"staff_viewer">> ELSE mapped
            local_roles == {r \in DOMAIN roles :
                               roles[r].name \in Range(local_role_names)}
            role_names == {roles[r].name : r \in local_roles}
        IN  IF ~v.value
            THEN /\ lastOp' = [op |-> "auth_callback", user_id |-> u,
                               state |-> state, status |-> 400, role_names |-> {}]
                 /\ auth_states' = v.auth_states
                 /\ UNCHANGED <<users, roles, userRoles, auditLog, secrets_drawn, callback>>
                 /\ tokenUnchanged
                 /\ formsUnchanged
            ELSE /\ users' = users \cup {u}
                 /\ userRoles' = {ur \in userRoles : ur.user_id # u}
                                   \cup {UserRole(u, r) : r \in local_roles}
                 /\ lastOp' = [op |-> "auth_callback", user_id |-> u,
                               state |-> state, status |-> 200,
                               role_names |-> role_names]
                 /\ auth_states' = v.auth_states
                 /\ UNCHANGED <<roles, auditLog, secrets_drawn, callback>>
                 /\ tokenUnchanged
                 /\ formsUnchanged

AuthCallback == AuthCallbackOf(UserIds, KeycloakRoleLists, AuditStates)

(***************************************************************************)
(* The store the resolver and the gate start from: user u1 (u2 has no row) *)
(* and two roles, a reviewer and a custom role kept as a mapping, not yet  *)
(* assigned.                                                               *)
(***************************************************************************)
InitStore ==
    /\ now = 0
    /\ tokens = {}
    /\ users = {"u1"}
    /\ roles = [r \in RoleIds |->
                  IF r = "r1"
                  THEN Role("reviewer",
                            PermList(<<Permission.FORM_READ, Permission.FORM_REVIEW,
                                       Permission.FORM_APPROVE>>))
                  ELSE Role("records_clerk",
                            PermDict(<<Permission.FORM_DELETE,
                                       Permission.USER_MANAGE_ROLES,
                                       Permission.BUSINESS_AREA_MANAGE>>))]
    /\ userRoles = {}
    /\ auditLog = << >>
    /\ forms = << >>
    /\ auth_states = << >>
    /\ secrets_drawn = 0
    /\ callback = NoCallback
    /\ lastOp = [op |-> "none"]

StoreEdit ==
    \/ AssignRole
    \/ RevokeAssignment
    \/ DeactivateRole
    \/ SoftDeleteRole

\* The resolver over a store whose roles and assignments are being edited.
NextResolve ==
    \/ StoreEdit
    \/ GetUserPermissions
    \/ HasPermission
    \/ HasAnyPermission
    \/ HasAllPermissions

SpecResolve == InitStore /\ [][NextResolve]_vars

\* Resolver and gate calls between the edits that withdraw a grant.
NextRevoke ==
    \/ StoreEdit
    \/ GetUserPermissions
    \/ HasPermission
    \/ RequirePermission

SpecRevoke == InitStore /\ [][NextRevoke]_vars

\* The narrower inputs of the calls made next to the other writers of the
\* store.
AuditPrincipals == {TokenData("u1", "a@gov.bc.ca", "A User", << >>, "access")}

AuditPairs == {<<"users", "manage_roles">>}

AuditLists == {<<Permission.USER_MANAGE_ROLES>>}

AuditUserIds == {"u1"}

AuditPermissions == {Permission.USER_MANAGE_ROLES}

AuditRoleLists == {<<"ADMIN", "unknown">>}

\* FormService next to the gate that guards its routes.
NextForms ==
    \/ AssignRole
    \/ RequirePermissionOf(AuditPrincipals, GatePairs, MaxAudit)
    \/ RequireAnyPermissionOf(AuditPrincipals, GateLists, MaxAudit)
    \/ RequireAllPermissionsOf(AuditPrincipals, GateLists, MaxAudit)
    \/ CreateForm
    \/ UpdateForm
    \/ DeleteForm
    \/ ArchiveForm
    \/ UnarchiveForm

SpecForms == InitStore /\ [][NextForms]_vars

\* The Audit Recorder called for principals that log in, or never did.
NextRecorder ==
    \/ LogPermissionCheck
    \/ RequirePermissionOf(Principals, GatePairs, MaxAudit)
    \/ RequireAnyPermissionOf(Principals, AuditLists, MaxAudit)
    \/ LoginOf(AuditStates)
    \/ AuthCallback
    \/ SeedDefaultRoles

SpecRecorder == InitStore /\ [][NextRecorder]_vars

\* Everything that writes to the store: gate checks, recorder calls,
\* FormService mutations, logins and role seeding, until the audit log
\* holds AuditDepth entries.
NextAudit ==
    \/ RequirePermissionOf(AuditPrincipals, AuditPairs, AuditDepth)
    \/ RequireAnyPermissionOf(AuditPrincipals, AuditLists, AuditDepth)
    \/ RequireAllPermissionsOf(AuditPrincipals, AuditLists, AuditDepth)
    \/ LogPermissionCheckOf(AuditUserIds, AuditPermissions, AuditDepth)
    \/ CreateFormOf(AuditDepth)
    \/ UpdateFormOf(AuditDepth)
    \/ DeleteFormOf(AuditDepth)
    \/ ArchiveFormOf(AuditDepth)
    \/ UnarchiveFormOf(AuditDepth)
    \/ LoginOf(AuditStates)
    \/ AuthCallbackOf(AuditUserIds, AuditRoleLists, AuditStates)
    \/ SeedDefaultRoles

SpecAudit == InitStore /\ [][NextAudit]_vars

\* The gate and its audit trail while roles are assigned and revoked.
(***************************************************************************)
(* is_admin over a store that holds a role named admin.                    *)
(***************************************************************************)
\* The principals presented to is_admin: tokens of u1 minted with no role,
\* with the admin role and with the reviewer role, and a token of u2.
AdminPrincipals ==
    { TokenData("u1", "a@gov.bc.ca", "A User", << >>, "access"),
      TokenData("u1", "a@gov.bc.ca", "A User", <<"admin">>, "access"),
      TokenData("u1", "a@gov.bc.ca", "A User", <<"reviewer">>, "access"),
      TokenData("u2", "b@gov.bc.ca", "B User", <<"reviewer", "admin">>, "access") }

IsAdmin ==
    \E user \in AdminPrincipals :
      \E user_roles \in LoadOrders(user_roles_query(user.sub)) :
        LET res == is_admin(user, user_roles)
        IN  /\ lastOp' = [op |-> "is_admin", user |-> user,
                          result |-> res.value, queried |-> res.queried]
            /\ storeUnchanged
            /\ tokenUnchanged
            /\ loginUnchanged

\* The store after the admin and reviewer roles have been created.
InitAdmin ==
    /\ now = 0
    /\ tokens = {}
    /\ users = {"u1"}
    /\ roles = [r \in RoleIds |->
                  IF r = "r1"
                  THEN Role("admin", PermList(DEFAULT_ROLES.admin))
                  ELSE Role("reviewer", PermList(DEFAULT_ROLES.reviewer))]
    /\ userRoles = {}
    /\ auditLog = << >>
    /\ forms = << >>
    /\ auth_states = << >>
    /\ secrets_drawn = 0
    /\ callback = NoCallback
    /\ lastOp = [op |-> "none"]

NextAdmin ==
    \/ StoreEdit
    \/ IsAdmin

SpecAdmin == InitAdmin /\ [][NextAdmin]_vars

(***************************************************************************)
(* The gate before principals whose tokens carry role lists of their own,  *)
(* over a store that holds a role named admin.                             *)
(***************************************************************************)
CheckResourcePermission ==
    \E u \in UserIds, ra \in GatePairs :
      \E user_roles \in LoadOrders(user_roles_query(u)) :
        LET res == check_resource_permission(u, ra[1], ra[2], user_roles)
        IN  /\ lastOp' = [op |-> "check_resource_permission", user_id |-> u,
                          resource |-> ra[1], action |-> ra[2],
                          result |-> res.value, raised |-> res.raised]
            /\ storeUnchanged
            /\ tokenUnchanged
            /\ loginUnchanged

NextGate ==
    \/ StoreEdit
    \/ RequirePermissionOf(AdminPrincipals, AuditPairs, MaxAudit)
    \/ RequireAnyPermissionOf(AdminPrincipals, AuditLists, MaxAudit)
    \/ RequireAllPermissionsOf(AdminPrincipals, AuditLists, MaxAudit)
    \/ CheckResourcePermission

SpecGate == InitAdmin /\ [][NextGate]_vars

(***************************************************************************)
(* Login and callback requests in any order.                               *)
(***************************************************************************)
NextLogin ==
    \/ LoginOf(LoginStates)
    \/ ValidateStateOf(LoginStates)
    \/ AuthCallbackOf(UserIds, KeycloakRoleLists, LoginStates)

SpecLogin == InitStore /\ [][NextLogin]_vars

(***************************************************************************)
(* auth_callback statement by statement, as a concurrent reader meets it:  *)
(* the session holds the changes of the statements executed so far, and    *)
(* readers of the store see what is committed.                             *)
(***************************************************************************)
\* The callback's session (get_db): the committed store and the session's
\* working state.
login_session(working) ==
    [committed |-> [users |-> users, userRoles |-> userRoles],
     working   |-> working]

\* user found by email, or db.add(user); db.flush()
find_or_create_user(db, user_id) ==
    [db EXCEPT !.working.users = @ \cup {user_id}]

\* The DELETE followed by a commit of its own: what C27 rests on.
delete_user_roles_committing(db, user_id) ==
    db_commit([db EXCEPT !.working.userRoles = {ur \in @ : ur.user_id # user_id}])

\* db.query(UserRole).filter(UserRole.user_id == user.id).delete()
delete_user_roles(db, user_id) ==
    [db EXCEPT !.working.userRoles = {ur \in @ : ur.user_id # user_id}]

\* db.add(UserRole(user_id, role_id))
add_user_role(db, user_id, role_id) ==
    [db EXCEPT !.working.userRoles = @ \cup {UserRole(user_id, role_id)}]

\* The role lists KeyCloak sends while assignments are replaced.
ReassignRoleLists == KeycloakRoleLists \cup { <<"ADMIN", "reviewer">> }

\* From validate_state to the DELETE of the user's assignment rows.
CallbackDelete ==
    \E u \in UserIds, keycloak_roles \in ReassignRoleLists,
       state \in PresentedStates(LoginStates) :
        LET v == validate_state(state)
            mapped == map_keycloak_roles_to_local(keycloak_roles)
            local_role_names == IF mapped = << >> THEN <<"staff_viewer">> ELSE mapped
            local_roles == {r \in DOMAIN roles :
                               roles[r].name \in Range(local_role_names)}
            db == delete_user_roles(
                      find_or_create_user(
                          login_session([users |-> users, userRoles |-> userRoles]), u), u)
        IN  /\ callback.pc = "none"
            /\ auth_states' = v.auth_states
            /\ IF ~v.value
               THEN /\ lastOp' = [op |-> "auth_callback", user_id |-> u,
                                  state |-> state, status |-> 400, role_names |-> {}]
                    /\ UNCHANGED <<users, userRoles, callback>>
               ELSE /\ users' = db.committed.users
                    /\ userRoles' = db.committed.userRoles
                    /\ callback' = [pc |-> "deleted", user_id |-> u, state |-> state,
                                    existed |-> u \in users,
                                    old |-> {ur \in userRoles : ur.user_id = u},
                                    local_roles |-> local_roles,
                                    pending |-> local_roles,
                                    working |-> db.working]
                    /\ lastOp' = [op |-> "auth_callback_delete", user_id |-> u,
                                  state |-> state]
            /\ UNCHANGED <<roles, auditLog, secrets_drawn>>
            /\ tokenUnchanged
            /\ formsUnchanged

\* One turn of the loop over local_roles.
CallbackAdd ==
    \E r \in callback.pending :
        LET db == add_user_role(login_session(callback.working), callback.user_id, r)
        IN  /\ callback.pc = "deleted"
            /\ users' = db.committed.users
            /\ userRoles' = db.committed.userRoles
            /\ callback' = [callback EXCEPT !.pending = @ \ {r},
                                            !.working = db.working]
            /\ lastOp' = [op |-> "auth_callback_add", user_id |-> callback.user_id,
                          role_id |-> r]
            /\ UNCHANGED <<roles, auditLog, auth_states, secrets_drawn>>
            /\ tokenUnchanged
            /\ formsUnchanged

\* db.commit() after the loop, and the answer.
CallbackCommit ==
    LET db == db_commit(login_session(callback.working))
    IN  /\ callback.pc = "deleted"
        /\ callback.pending = {}
        /\ users' = db.committed.users
        /\ userRoles' = db.committed.userRoles
        /\ callback' = NoCallback
        /\ lastOp' = [op |-> "auth_callback", user_id |-> callback.user_id,
                      state |-> callback.state, status |-> 200,
                      role_names |-> {roles[r].name : r \in callback.local_roles}]
        /\ UNCHANGED <<roles, auditLog, auth_states, secrets_drawn>>
        /\ tokenUnchanged
        /\ formsUnchanged

\* An exception after the DELETE: db.rollback() and a 500.
CallbackRollback ==
    LET db == db_rollback(login_session(callback.working))
    IN  /\ callback.pc = "deleted"
        /\ users' = db.committed.users
        /\ userRoles' = db.committed.userRoles
        /\ callback' = NoCallback
        /\ lastOp' = [op |-> "auth_callback", user_id |-> callback.user_id,
                      state |-> callback.state, status |-> 500, role_names |-> {}]
        /\ UNCHANGED <<roles, auditLog, auth_states, secrets_drawn>>
        /\ tokenUnchanged
        /\ formsUnchanged

\* A login callback in flight while the resolver is called.
NextReassign ==
    \/ LoginOf(LoginStates)
    \/ CallbackDelete
    \/ CallbackAdd
    \/ CallbackCommit
    \/ CallbackRollback
    \/ GetUserPermissions

SpecReassign == InitAdmin /\ [][NextReassign]_vars

(***************************************************************************)
(* POST /auth/refresh.                                                     *)
(***************************************************************************)
\* user.email of a stored user; no first or last name is stored, so the
\* full name falls back to the email.
user_email(user_id) == user_id \o "@gov.bc.ca"

\* user.roles: the relationship loads every assignment row of the user.
User_roles(user_id) == {ur \in userRoles : ur.user_id = user_id}

\* What the endpoint answers: the status and, on 200, the body.
RefreshResponse(status_code, detail, access_token) ==
    [status_code |-> status_code, detail |-> detail,
     access_token |-> access_token, token_type |-> "Bearer", expires_in |-> 1800]

\* refresh_token: the refresh token is validated, the user row is fetched by
\* the token's subject, and an access token is minted with the names of the
\* roles of user.roles, in the order the relationship loaded them.  The 401
\* the endpoint raises for a missing user is caught by its own
\* `except Exception` and answered as 500.  The rows of users are active
\* users: nothing in the service clears is_active.
refresh_token(refresh, user_roles, t) ==
    LET token_data == validate_token(refresh, "refresh", t)
        user_id == token_data.data.sub
        role_names == [i \in 1..Len(user_roles) |-> roles[user_roles[i].role_id].name]
    IN  IF ~token_data.ok
        THEN RefreshResponse(401, token_data.error, MalformedToken)
        ELSE IF user_id \notin users
        THEN RefreshResponse(500, "Token refresh failed", MalformedToken)
        ELSE RefreshResponse(200, "",
                 generate_access_token(user_id, user_email(user_id),
                                       user_email(user_id), role_names, NoDelta, t))

\* The subject a presented token names, whatever its signature.
SubjectOf(tok) == Get(tok.payload, "sub", "")

RefreshToken ==
    \E tok \in Presented :
      \E user_roles \in LoadOrders(User_roles(SubjectOf(tok))) :
        /\ lastOp' = [op |-> "refresh_token", at |-> now, token |-> tok,
                      result |-> refresh_token(tok, user_roles, now)]
        /\ storeUnchanged
        /\ tokenUnchanged
        /\ loginUnchanged

\* Refresh tokens are minted and presented while roles are assigned, revoked,
\* deactivated and soft-deleted.
NextRefresh ==
    \/ StoreEdit
    \/ GenerateRefreshToken
    \/ RefreshToken

SpecRefresh == InitStore /\ [][NextRefresh]_vars

(***************************************************************************)
(* A direct call of the Permission Catalog.                                *)
(***************************************************************************)
ResourceNames == DOMAIN RESOURCE_ACTION_PERMISSIONS \cup {"unknown"}

ActionNames ==
    UNION {DOMAIN RESOURCE_ACTION_PERMISSIONS[r] : r \in DOMAIN RESOURCE_ACTION_PERMISSIONS}
        \cup {"fly"}

GetPermissionForResourceAction ==
    \E resource \in ResourceNames, action \in ActionNames :
        LET res == get_permission_for_resource_action(resource, action)
        IN  /\ lastOp' = [op |-> "get_permission_for_resource_action",
                          resource |-> resource, action |-> action,
                          ok |-> res.ok, error |-> res.error, value |-> res.value]
            /\ storeUnchanged
            /\ tokenUnchanged
            /\ loginUnchanged

\* The catalog called directly and by the gate.
NextCatalog ==
    \/ GetPermissionForResourceAction
    \/ RequirePermissionOf(AuditPrincipals, GatePairs, MaxAudit)

SpecCatalog == InitStore /\ [][NextCatalog]_vars

Next ==
    \/ AssignRole
    \/ RevokeAssignment
    \/ RequirePermission
    \/ RequireAnyPermission
    \/ RequireAllPermissions

Spec == InitStore /\ [][Next]_vars

(***************************************************************************)
(* Claims about the Token Service (checked under SpecTok).                 *)
(***************************************************************************)
\* The token was minted by the Token Service.
Minted(tok) == tok \in tokens

\* The clock time t is after the token's expiry time.
PastExpiry(tok, t) == t > tok.payload.exp

OtherType(ty) == IF ty = "access" THEN "refresh" ELSE "access"

\* C1 (as amended): validate_token returns a TokenData only when the expected
\* type equals the type embedded in the token; a minted token that validates
\* as its own type is rejected with the type-mismatch error when it is
\* presented as the other type, and one that no longer validates as its own
\* type (it has expired) is rejected as expired.
C1_TypeSeparation ==
    lastOp.op = "validate_token" =>
        LET tok == lastOp.token
            res == lastOp.result
            own == validate_token(tok, OtherType(lastOp.token_type), lastOp.at)
        IN  /\ res.ok => /\ tok.wellformed
                         /\ tok.payload.type = lastOp.token_type
                         /\ res.data.token_type = tok.payload.type
            /\ (Minted(tok) /\ tok.payload.type # lastOp.token_type) =>
                  /\ ~res.ok
                  /\ res.data = NoTokenData
                  /\ own.ok => res.error = "Invalid token type"
                  /\ ~own.ok => res.error = "Token has expired"

\* C1 witness: a minted refresh token was presented as an access token and
\* rejected for its type.
C1_Witness ==
    /\ lastOp.op = "validate_token"
    /\ Minted(lastOp.token)
    /\ lastOp.token.payload.type = "refresh"
    /\ lastOp.token_type = "access"
    /\ ~lastOp.result.ok
    /\ lastOp.result.error = "Invalid token type"

\* C1 as first stated: every minted token presented as the other type is
\* rejected with the type-mismatch error.
C1_Original ==
    (/\ lastOp.op = "validate_token"
     /\ Minted(lastOp.token)
     /\ lastOp.token.payload.type # lastOp.token_type) =>
        /\ ~lastOp.result.ok
        /\ lastOp.result.error = "Invalid token type"

\* C2: refresh_access_token, given a valid (minted, unexpired) refresh token
\* whose subject differs from the supplied user id, fails with the
\* subject-mismatch error and produces no access token, whatever email, name
\* and roles are supplied.
C2_NoTokenForWrongSubject ==
    (/\ lastOp.op = "refresh_access_token"
     /\ Minted(lastOp.token)
     /\ lastOp.token.payload.type = "refresh"
     /\ IntSeconds(lastOp.token.payload.exp) * Resolution > lastOp.at
     /\ lastOp.token.payload.sub # lastOp.user_id) =>
        /\ ~lastOp.result.ok
        /\ lastOp.result.error = "Refresh token user ID mismatch"
        /\ lastOp.result.token = MalformedToken

\* C2 witness: a refresh with a valid refresh token of another subject and a
\* profile that carries roles.
C2_Witness ==
    /\ lastOp.op = "refresh_access_token"
    /\ Minted(lastOp.token)
    /\ lastOp.token.payload.type = "refresh"
    /\ validate_token(lastOp.token, "refresh", lastOp.at).ok
    /\ lastOp.token.payload.sub # lastOp.user_id
    /\ lastOp.profile.roles # << >>
    /\ ~lastOp.result.ok

\* C3: once the clock is past a minted token's expiry, validate_token for the
\* token's own type fails with the expired error and returns no TokenData,
\* while get_token_expiry_seconds on the same token returns 0: not None, not
\* an error, not a negative number.
C3_Expiry ==
    /\ (/\ lastOp.op = "validate_token"
        /\ Minted(lastOp.token)
        /\ lastOp.token.payload.type = lastOp.token_type
        /\ PastExpiry(lastOp.token, lastOp.at)) =>
           /\ ~lastOp.result.ok
           /\ lastOp.result.error = "Token has expired"
           /\ lastOp.result.data = NoTokenData
    /\ (/\ lastOp.op = "get_token_expiry_seconds"
        /\ Minted(lastOp.token)
        /\ PastExpiry(lastOp.token, lastOp.at)) =>
           /\ ~lastOp.result.none
           /\ lastOp.result.seconds = 0

\* C3 witness: the remaining time of a minted token was asked more than a
\* second after its expiry, and the same token is rejected as expired.
C3_Witness ==
    /\ lastOp.op = "get_token_expiry_seconds"
    /\ Minted(lastOp.token)
    /\ lastOp.at >= lastOp.token.payload.exp + Resolution
    /\ lastOp.result = [none |-> FALSE, seconds |-> 0]
    /\ validate_token(lastOp.token, lastOp.token.payload.type, lastOp.at).error
          = "Token has expired"

(***************************************************************************)
(* Claims about the Permission Resolver and the Authorization Gate.        *)
(***************************************************************************)
\* The roles through which the store grants permissions to a principal now:
\* a non-soft-deleted assignment to an active, non-soft-deleted role.
EffectiveRoles(u) ==
    {r \in DOMAIN roles :
        /\ roles[r].is_active
        /\ ~roles[r].deleted_at
        /\ \E ur \in userRoles :
              ur.user_id = u /\ ur.role_id = r /\ ~ur.deleted_at}

\* The permissions a role lists.
Listed(r) == Range(roles[r].permissions.items)

\* The inheritance rules: holding the first permission implies the second.
InheritanceRules ==
    { <<"form:delete", "form:edit">>,
      <<"user:manage_roles", "user:read">>,
      <<"business_area:manage", "business_area:read">> }

\* q is listed in role r, or implied by a permission listed in r.
GrantedBy(r, q) ==
    \/ q \in Listed(r)
    \/ \E p \in Listed(r) : <<p, q>> \in InheritanceRules

Granted(u) ==
    {q \in AllPermissions : \E r \in EffectiveRoles(u) : GrantedBy(r, q)}

\* The assignment rows of a principal, revoked ones included.
Assignments(u) == {ur \in userRoles : ur.user_id = u}

\* The principal is absent from the store or holds no assignment that is
\* not revoked.
NoAssignment(u) == u \notin users \/ \A ur \in Assignments(u) : ur.deleted_at

GateOps ==
    {"require_permission", "require_any_permission", "require_all_permissions"}

\* C4: for a registered (resource, action) pair require_permission returns
\* the presented principal unchanged exactly when has_permission holds for
\* the resolved permission against the stored role data, and otherwise
\* denies with 403; require_any_permission and require_all_permissions allow
\* exactly when has_any_permission / has_all_permissions holds.
C4_GateDecision ==
    /\ (/\ lastOp.op = "require_permission"
        /\ get_permission_for_resource_action(lastOp.resource, lastOp.action).ok) =>
          \A user_roles \in LoadOrders(user_roles_query(lastOp.user.sub)) :
            LET permission ==
                    get_permission_for_resource_action(lastOp.resource,
                                                       lastOp.action).value
                held == has_permission(lastOp.user.sub, permission, user_roles)
            IN  /\ held <=> (lastOp.status = 200 /\ lastOp.returned = lastOp.user)
                /\ ~held <=> lastOp.status = 403
    /\ lastOp.op = "require_any_permission" =>
          \A user_roles \in LoadOrders(user_roles_query(lastOp.user.sub)) :
            LET held == has_any_permission(lastOp.user.sub, lastOp.permissions,
                                           user_roles)
            IN  /\ held <=> (lastOp.status = 200 /\ lastOp.returned = lastOp.user)
                /\ ~held <=> lastOp.status = 403
    /\ lastOp.op = "require_all_permissions" =>
          \A user_roles \in LoadOrders(user_roles_query(lastOp.user.sub)) :
            LET held == has_all_permissions(lastOp.user.sub, lastOp.permissions,
                                            user_roles)
            IN  /\ held <=> (lastOp.status = 200 /\ lastOp.returned = lastOp.user)
                /\ ~held <=> lastOp.status = 403

\* C4 witness: the gate let a principal through for ("forms", "update"), a
\* permission the principal holds by inheritance only.
C4_Witness ==
    /\ lastOp.op = "require_permission"
    /\ lastOp.resource = "forms" /\ lastOp.action = "update"
    /\ lastOp.status = 200
    /\ lastOp.returned = lastOp.user
    /\ lastOp.user.sub \in users
    /\ Permission.FORM_EDIT \in Granted(lastOp.user.sub)

\* C5: get_user_permissions returns a permission only if it is listed in, or
\* implied by a permission listed in, a role that is active and not
\* soft-deleted and to which the principal holds a non-soft-deleted
\* assignment; what only a revoked assignment, an inactive role or a
\* soft-deleted role would grant is not in the result.
C5_OnlyEffectiveRoles ==
    lastOp.op = "get_user_permissions" =>
        /\ \A q \in lastOp.result :
              \E r \in EffectiveRoles(lastOp.user_id) : GrantedBy(r, q)
        /\ \A ur \in Assignments(lastOp.user_id) :
              \A q \in Listed(ur.role_id) :
                 (q \notin Granted(lastOp.user_id)) => q \notin lastOp.result

\* C5 witness: a non-empty result for a principal who also holds an
\* assignment that grants nothing, none of whose permissions was returned.
C5_Witness ==
    /\ lastOp.op = "get_user_permissions"
    /\ lastOp.result # {}
    /\ \E ur \in Assignments(lastOp.user_id) :
          /\ ur.deleted_at \/ ~roles[ur.role_id].is_active
                           \/ roles[ur.role_id].deleted_at
          /\ Listed(ur.role_id) \cap lastOp.result = {}

\* C6: once an assignment is revoked, or its role deactivated or
\* soft-deleted, every later get_user_permissions / has_permission /
\* require_permission call for the principal leaves out what only that role
\* granted: a call answers from the store as it is when the call is made,
\* whatever role names the presented token carries.
C6_RevocationImmediate ==
    /\ lastOp.op = "get_user_permissions" =>
          lastOp.result \subseteq Granted(lastOp.user_id)
    /\ lastOp.op = "has_permission" =>
          (lastOp.result => lastOp.permission \in Granted(lastOp.user_id))
    /\ lastOp.op = "require_permission" =>
          (lastOp.status = 200 =>
              get_permission_for_resource_action(lastOp.resource,
                                                 lastOp.action).value
                 \in Granted(lastOp.user.sub))

\* C6 witness: require_permission denied ("forms", "update") to a principal
\* whose token still names the role that granted it, the assignment to that
\* role being revoked.
C6_Witness ==
    /\ lastOp.op = "require_permission"
    /\ lastOp.resource = "forms" /\ lastOp.action = "update"
    /\ lastOp.status = 403
    /\ \E ur \in Assignments(lastOp.user.sub) :
          /\ ur.deleted_at
          /\ roles[ur.role_id].is_active /\ ~roles[ur.role_id].deleted_at
          /\ GrantedBy(ur.role_id, Permission.FORM_EDIT)
          /\ roles[ur.role_id].name \in Range(lastOp.user.roles)

\* C7: for a principal with no role assignment, and for a principal id that
\* is not in the store, get_user_permissions returns the empty set and
\* has_permission is false for every permission of the catalog.
C7_NoAssignmentsNoPermissions ==
    /\ \A u \in UserIds :
          NoAssignment(u) =>
              \A user_roles \in LoadOrders(user_roles_query(u)) :
                 /\ get_user_permissions(u, user_roles) = {}
                 /\ \A q \in AllPermissions : ~has_permission(u, q, user_roles)
    /\ (/\ lastOp.op = "get_user_permissions"
        /\ NoAssignment(lastOp.user_id)) =>
          lastOp.result = {}
    /\ (/\ lastOp.op = "has_permission"
        /\ NoAssignment(lastOp.user_id)) =>
          lastOp.result = FALSE

\* C7 witness: the permissions of a principal id absent from the store were
\* asked for while the other principal holds a role.
C7_Witness ==
    /\ lastOp.op = "get_user_permissions"
    /\ lastOp.user_id \notin users
    /\ lastOp.result = {}
    /\ \E u \in users : Granted(u) # {}

C9_AnyAll ==
    /\ lastOp.op = "has_any_permission" =>
          \A user_roles \in LoadOrders(user_roles_query(lastOp.user_id)) :
             lastOp.result <=>
                (Range(lastOp.permissions)
                    \cap get_user_permissions(lastOp.user_id, user_roles) # {})
    /\ lastOp.op = "has_all_permissions" =>
          \A user_roles \in LoadOrders(user_roles_query(lastOp.user_id)) :
             lastOp.result <=>
                (Range(lastOp.permissions)
                    \subseteq get_user_permissions(lastOp.user_id, user_roles))
    /\ (lastOp.op = "has_any_permission" /\ lastOp.permissions = << >>) =>
          ~lastOp.result
    /\ (lastOp.op = "has_all_permissions" /\ lastOp.permissions = << >>) =>
          lastOp.result
    /\ \A u \in UserIds :
          (/\ Cardinality(EffectiveRoles(u)) = 1
           /\ Cardinality(Assignments(u)) = 1
           /\ \A r \in EffectiveRoles(u) :
                 Listed(r) = {"form:read", "form:review", "form:approve"}) =>
              \A user_roles \in LoadOrders(user_roles_query(u)) :
                 /\ ~has_all_permissions(u, <<"form:read", "form:create">>, user_roles)
                 /\ has_any_permission(u, <<"form:create", "form:review">>, user_roles)

\* C9 witness: has_any([form:create, form:review]) answered true for a
\* principal whose only role is the reviewer role.
C9_Witness ==
    /\ lastOp.op = "has_any_permission"
    /\ lastOp.permissions = <<"form:create", "form:review">>
    /\ lastOp.result
    /\ Cardinality(Assignments(lastOp.user_id)) = 1
    /\ \E r \in EffectiveRoles(lastOp.user_id) :
          Listed(r) = {"form:read", "form:review", "form:approve"}

\* The permission string a gate call requires: the resolved permission, or
\* the listed permissions joined.
RequiredOf(op) ==
    IF op.op = "require_permission"
    THEN get_permission_for_resource_action(op.resource, op.action).value
    ELSE IF op.op = "require_any_permission"
    THEN Join("|", op.permissions)
    ELSE Join("&", op.permissions)

C10_Step ==
    (lastOp'.op \in GateOps /\ lastOp'.status = 403) =>
        /\ lastOp'.calls = <<LogCall(RequiredOf(lastOp'), FALSE)>>
        /\ (lastOp'.user.sub \in users /\ lastOp'.insert_ok) =>
              /\ Len(auditLog') = Len(auditLog) + 1
              /\ SubSeq(auditLog', 1, Len(auditLog)) = auditLog
              /\ LET e == auditLog'[Len(auditLog')]
                 IN  /\ e.user_id = lastOp'.user.sub
                     /\ e.action = "permission_check"
                     /\ e.entity_id = RequiredOf(lastOp')
                     /\ e.new_values.permission = RequiredOf(lastOp')
                     /\ e.new_values.allowed = FALSE

\* C10: whenever require_permission, require_any_permission or
\* require_all_permissions denies, it has called the audit recorder for the
\* denial before raising; when the principal exists in the store and the
\* insert succeeds, the step appends exactly one audit entry, with allowed =
\* false and the required permission(s).
C10_DenialAudited == [][C10_Step]_vars

\* C10 witness: require_any_permission denied an existing principal and the
\* audit log holds the entry of that denial.
C10_Witness ==
    /\ lastOp.op = "require_any_permission"
    /\ lastOp.status = 403
    /\ lastOp.user.sub \in users
    /\ lastOp.insert_ok
    /\ Len(lastOp.permissions) = 2
    /\ Len(auditLog) = 1
    /\ auditLog[1].entity_id = Join("|", lastOp.permissions)
    /\ auditLog[1].new_values.allowed = FALSE

(***************************************************************************)
(* Claims about the Audit Recorder behind the gate.                        *)
(***************************************************************************)
\* The gate call allowed, and a permission it required is on the sensitive
\* list and held by the principal.
SensitiveGrant(op) ==
    /\ op.op \in GateOps
    /\ op.status = 200
    /\ IF op.op = "require_permission"
       THEN RequiredOf(op) \in SENSITIVE_PERMISSIONS
       ELSE \E i \in 1..Len(op.permissions) :
               /\ op.permissions[i] \in SENSITIVE_PERMISSIONS
               /\ op.permissions[i] \in Granted(op.user.sub)

C11_Step ==
    (/\ SensitiveGrant(lastOp')
     /\ lastOp'.user.sub \in users
     /\ lastOp'.insert_ok) =>
        /\ Len(auditLog') = Len(auditLog) + 1
        /\ auditLog'[Len(auditLog')].user_id = lastOp'.user.sub
        /\ auditLog'[Len(auditLog')].new_values.allowed = TRUE

\* C11: every successful check of a sensitive permission by an existing
\* principal appends an audit entry with allowed = true, whether it is made
\* through require_permission, require_any_permission or
\* require_all_permissions; the joining of the names with '|' or '&' does
\* not change which checks are recorded.
C11_SensitiveGrantRecorded == [][C11_Step]_vars

\* C11 witness: require_all_permissions allowed a list of two permissions,
\* one of them sensitive, to an existing principal with a working insert,
\* and the audit log is still empty.
C11_Witness ==
    /\ lastOp.op = "require_all_permissions"
    /\ SensitiveGrant(lastOp)
    /\ Len(lastOp.permissions) = 2
    /\ lastOp.user.sub \in users
    /\ lastOp.insert_ok
    /\ auditLog = << >>

\* The permissions a gate call requires, as a set.
RequiredSet(op) ==
    IF op.op = "require_permission" THEN {RequiredOf(op)}
    ELSE Range(op.permissions)

C12_Step ==
    (/\ lastOp'.op \in GateOps
     /\ lastOp'.status = 200
     /\ RequiredSet(lastOp') \cap SENSITIVE_PERMISSIONS = {}) =>
        auditLog' = auditLog

\* C12: a successful check in which no required permission is on the
\* sensitive list leaves the audit log unchanged, through require_permission,
\* require_any_permission and require_all_permissions alike.
C12_NonSensitiveGrantNotLogged == [][C12_Step]_vars

\* C12 witness: require_any_permission allowed a list of two non-sensitive
\* permissions to an existing principal with a working insert, and nothing
\* was logged.
C12_Witness ==
    /\ lastOp.op = "require_any_permission"
    /\ lastOp.status = 200
    /\ lastOp.permissions = <<Permission.FORM_READ, Permission.FORM_CREATE>>
    /\ lastOp.user.sub \in users
    /\ lastOp.insert_ok
    /\ auditLog = << >>

\* What a gate call with the recorded inputs returns when the audit insert
\* succeeds.
GateWithInsert(op, user_roles) ==
    IF op.op = "require_permission"
    THEN require_permission(op.resource, op.action, op.user, user_roles, TRUE)
    ELSE IF op.op = "require_any_permission"
    THEN require_any_permission(op.permissions, op.user, user_roles, TRUE)
    ELSE require_all_permissions(op.permissions, op.user, user_roles, TRUE)

\* What a FormService call with the recorded inputs returns when the audit
\* insert succeeds.
FormWithInsert(op) ==
    CASE op.op = "create_form" ->
            create_form(db_session, op.form_id, "t1", op.user_id, TRUE)
      [] op.op = "update_form" ->
            update_form(db_session, op.form_id, op.user_id, "t2", TRUE)
      [] op.op = "delete_form" ->
            delete_form(db_session, op.form_id, op.user_id, TRUE)
      [] op.op = "archive_form" ->
            archive_form(db_session, op.form_id, op.user_id, TRUE)
      [] op.op = "unarchive_form" ->
            unarchive_form(db_session, op.form_id, op.user_id, TRUE)

\* The FormService call did its mutation (it did not return None or False).
Mutated(op) ==
    /\ op.op \in FormMutations
    /\ IF op.op = "delete_form" THEN op.value = TRUE ELSE ~op.none

\* The row of the form shows the mutation of the call.
MutationCommitted(op, before, after) ==
    /\ op.form_id \in DOMAIN after
    /\ CASE op.op = "create_form" -> op.form_id \notin DOMAIN before
         [] op.op = "update_form" -> after[op.form_id].title = "t2"
         [] op.op = "delete_form" -> after[op.form_id].deleted_at
         [] op.op = "archive_form" -> after[op.form_id].status = "archived"
         [] op.op = "unarchive_form" -> after[op.form_id].status = "published"

C13_Step ==
    /\ (lastOp'.op \in GateOps /\ ~lastOp'.insert_ok) =>
          /\ auditLog' = auditLog
          /\ \A user_roles \in LoadOrders(user_roles_query(lastOp'.user.sub)) :
                LET r == GateWithInsert(lastOp', user_roles)
                IN  /\ lastOp'.status = r.status
                    /\ lastOp'.returned = r.user
                    /\ lastOp'.detail = r.detail
    /\ (lastOp'.op \in FormMutations /\ ~lastOp'.insert_ok) =>
          LET r == FormWithInsert(lastOp')
          IN  /\ auditLog' = auditLog
              /\ forms' = r.db.committed.forms
              /\ lastOp'.none = r.none
              /\ lastOp'.value = r.value
    /\ Mutated(lastOp') => MutationCommitted(lastOp', forms, forms')

\* C13: when the audit insert fails, no error escapes the recorder and the
\* triggering operation ends as it does when the insert succeeds: the gate
\* returns the same decision, and the mutation FormService committed before
\* it wrote the audit entry (create, update, delete, archive, unarchive)
\* stays committed; only the audit entry is missing.
C13_AuditFailureIsolated == [][C13_Step]_vars

\* C13 witness: delete_form whose audit insert failed: the form is
\* soft-deleted, the call returned True and the audit log is empty.
C13_Witness ==
    /\ lastOp.op = "delete_form"
    /\ ~lastOp.insert_ok
    /\ lastOp.value = TRUE
    /\ forms[lastOp.form_id].deleted_at
    /\ auditLog = << >>

(***************************************************************************)
(* Claims about the recorder called for a principal without a user row.    *)
(***************************************************************************)
\* The id the recorder was called for by the operation op.
RecordedFor(op) ==
    IF op.op = "log_permission_check" THEN op.user_id ELSE op.user.sub

\* The operation op called the recorder with a check it records: a denial,
\* or a grant of a sensitive permission.
RecordedCheck(op) ==
    \/ /\ op.op = "log_permission_check"
       /\ (~op.allowed \/ op.permission \in SENSITIVE_PERMISSIONS)
    \/ /\ op.op \in GateOps
       /\ op.status = 403

C14_Step ==
    (/\ lastOp'.op \in GateOps \cup {"log_permission_check"}
     /\ RecordedCheck(lastOp')
     /\ RecordedFor(lastOp') \notin users) =>
        /\ auditLog' = auditLog
        /\ lastOp'.op = "log_permission_check" => ~lastOp'.raised
        /\ lastOp'.op \in GateOps =>
              lastOp'.calls = <<LogCall(RequiredOf(lastOp'), FALSE)>>

\* C14: a call of the recorder for a principal id that has no user row
\* inserts nothing and returns normally, for a denial and for a grant of a
\* sensitive permission alike; a gate denial of such a principal has called
\* the recorder and left the audit log as it was.
C14_AbsentPrincipalNotRecorded == [][C14_Step]_vars

\* C14 witness: the recorder was called with a working insert for the grant
\* of a sensitive permission to an id that has no user row, and the audit
\* log is empty.
C14_Witness ==
    /\ lastOp.op = "log_permission_check"
    /\ lastOp.user_id \notin users
    /\ lastOp.allowed
    /\ lastOp.permission \in SENSITIVE_PERMISSIONS
    /\ lastOp.insert_ok
    /\ ~lastOp.raised
    /\ auditLog = << >>

(***************************************************************************)
(* Claims about the audit log as a table (checked under SpecAudit).        *)
(***************************************************************************)
C15_Step ==
    /\ Len(auditLog') >= Len(auditLog)
    /\ SubSeq(auditLog', 1, Len(auditLog)) = auditLog
    /\ \A i \in 1..Len(auditLog') : ~auditLog'[i].deleted_at

\* C15: the audit log is append-only across gate checks, recorder calls,
\* FormService mutations, logins and role seedings: every step leaves the
\* entries it found in place and unmodified, none of them soft-deleted, and
\* at most adds entries after them.
C15_AuditAppendOnly == [][C15_Step]_vars

\* C15 witness: the audit log holds the entry of a created form followed by
\* an entry written after it, and the form has since been soft-deleted.
C15_Witness ==
    /\ Len(auditLog) = 2
    /\ auditLog[1].action = "CREATE"
    /\ auditLog[1].entity_id \in DOMAIN forms
    /\ forms[auditLog[1].entity_id].deleted_at
    /\ lastOp.op \in {"auth_callback", "seed_default_roles"}

(***************************************************************************)
(* Claims about the Permission Catalog (checked under SpecCatalog).        *)
(***************************************************************************)
\* The pair is an entry of the resource-action table.
Registered(resource, action) ==
    /\ resource \in DOMAIN RESOURCE_ACTION_PERMISSIONS
    /\ action \in DOMAIN RESOURCE_ACTION_PERMISSIONS[resource]

\* C16: for a registered (resource, action) pair
\* get_permission_for_resource_action returns the permission registered for
\* it (form:archive for ("forms", "archive")); for a pair that is not
\* registered, its resource unknown or its action unknown to a known
\* resource, it raises and returns no permission.
C16_CatalogResolve ==
    lastOp.op = "get_permission_for_resource_action" =>
        /\ Registered(lastOp.resource, lastOp.action) =>
              /\ lastOp.ok
              /\ lastOp.value = RESOURCE_ACTION_PERMISSIONS[lastOp.resource][lastOp.action]
              /\ lastOp.value \in AllPermissions
        /\ (lastOp.resource = "forms" /\ lastOp.action = "archive") =>
              (lastOp.ok /\ lastOp.value = "form:archive")
        /\ ~Registered(lastOp.resource, lastOp.action) =>
              /\ ~lastOp.ok
              /\ lastOp.error \in {"Unknown resource", "Unknown action"}
              /\ lastOp.value \notin AllPermissions

\* C16 witness: the catalog was asked for an action of forms that is
\* registered for another resource only, and raised.
C16_Witness ==
    /\ lastOp.op = "get_permission_for_resource_action"
    /\ lastOp.resource = "forms"
    /\ lastOp.action = "manage_roles"
    /\ ~lastOp.ok
    /\ lastOp.error = "Unknown action"

(***************************************************************************)
(* Claims about the gate and the pairs the catalog does not know.          *)
(***************************************************************************)
\* C17: require_permission on a (resource, action) pair that is not
\* registered raises the configuration error, status 500, for every
\* principal, one holding every permission and one holding none included: it
\* neither returns the principal nor raises the 403 of a denial, and it has
\* not called the recorder.
C17_UnknownPairIsConfigurationError ==
    (/\ lastOp.op = "require_permission"
     /\ ~Registered(lastOp.resource, lastOp.action)) =>
        /\ lastOp.status = 500
        /\ lastOp.status \notin {200, 403}
        /\ lastOp.returned = NoTokenData
        /\ lastOp.detail \in {"Configuration error: Unknown resource",
                              "Configuration error: Unknown action"}
        /\ lastOp.calls = << >>

\* C17 witness: require_permission raised the configuration error to a
\* principal whose stored roles grant every permission of the catalog.
C17_Witness ==
    /\ lastOp.op = "require_permission"
    /\ ~Registered(lastOp.resource, lastOp.action)
    /\ lastOp.status = 500
    /\ Granted(lastOp.user.sub) = AllPermissions

\* C18: when require_permission denies, the denial it raises carries the
\* required permission, the catalog identifier the pair resolved to
\* (form:edit for ("forms", "update")).  The HTTPException of a denial has
\* a status code and a detail and nothing else, so the detail names it.
C18_DenialCarriesPermission ==
    (lastOp.op = "require_permission" /\ lastOp.status = 403) =>
        lastOp.detail = "Insufficient permissions. Required: " \o RequiredOf(lastOp)

\* C18 witness: require_permission denied ("forms", "update"), which
\* resolves to form:edit, and the detail of the denial names forms:update.
C18_Witness ==
    /\ lastOp.op = "require_permission"
    /\ lastOp.status = 403
    /\ lastOp.resource = "forms"
    /\ lastOp.action = "update"
    /\ RequiredOf(lastOp) = "form:edit"
    /\ lastOp.calls = <<LogCall("form:edit", FALSE)>>
    /\ lastOp.detail = "Insufficient permissions. Required: forms:update"

(***************************************************************************)
(* Claims about issuing and refreshing (checked under SpecTok).            *)
(***************************************************************************)
\* C19: generate_access_token followed at once by validate_token(token,
\* "access") returns the TokenData of the values the token was issued with:
\* the same subject, email and name, the same role names in the same order,
\* and token_type access.  The lifetime is the default one or a custom one
\* of a second or more.
C19_RoundTrip ==
    (/\ lastOp.op = "generate_access_token"
     /\ (lastOp.expires_delta.none \/ lastOp.expires_delta.ticks >= Resolution)) =>
        LET v == validate_token(lastOp.result, "access", now)
        IN  /\ now = lastOp.at
            /\ v.ok
            /\ v.data.sub = lastOp.user_id
            /\ v.data.email = lastOp.profile.email
            /\ v.data.name = lastOp.profile.name
            /\ v.data.roles = lastOp.profile.roles
            /\ v.data.token_type = "access"

\* C19 witness: an access token was issued with the default lifetime for two
\* role names, after the clock had moved.
C19_Witness ==
    /\ lastOp.op = "generate_access_token"
    /\ lastOp.expires_delta.none
    /\ lastOp.profile.roles = <<"admin", "reviewer">>
    /\ lastOp.at > 0
    /\ validate_token(lastOp.result, "access", now).data.roles = <<"admin", "reviewer">>

\* The token's expiry time, a whole number of seconds as the exp claim is
\* read, is still ahead of the clock time t.
Unexpired(tok, t) == IntSeconds(tok.payload.exp) * Resolution > t

AuthorizationClaims == {"email", "name", "roles"}

\* C21: a refresh token carries no authorization claims: its payload holds
\* the subject and no email, name or roles, and whenever validate_token
\* accepts a token as type refresh the TokenData it returns has the token's
\* subject, an empty role list and empty email and name.
C21_RefreshCarriesNoClaims ==
    /\ lastOp.op = "generate_refresh_token" =>
          /\ DOMAIN lastOp.result.payload \cap AuthorizationClaims = {}
          /\ lastOp.result.payload.sub = lastOp.user_id
          /\ lastOp.result.payload.type = "refresh"
    /\ \A tok \in tokens :
          tok.payload.type = "refresh" =>
              DOMAIN tok.payload \cap AuthorizationClaims = {}
    /\ (/\ lastOp.op = "validate_token"
        /\ lastOp.token_type = "refresh"
        /\ lastOp.result.ok) =>
          lastOp.result.data =
              TokenData(lastOp.token.payload.sub, "", "", << >>, "refresh")

\* C21 witness: a minted refresh token was validated as type refresh after
\* the clock had moved, and the TokenData returned has no role.
C21_Witness ==
    /\ lastOp.op = "validate_token"
    /\ lastOp.token_type = "refresh"
    /\ Minted(lastOp.token)
    /\ lastOp.at > 0
    /\ lastOp.result.ok
    /\ lastOp.result.data.sub = lastOp.token.payload.sub
    /\ lastOp.result.data.roles = << >>

(***************************************************************************)
(* Claims about the remaining lifetime of a token (checked under SpecTok). *)
(***************************************************************************)
\* The token parses and passes the signature, issuer and audience checks of
\* the service.
Verifiable(tok) ==
    /\ tok.wellformed
    /\ tok.key = PUBLIC_KEY
    /\ tok.payload.iss = TOKEN_ISSUER
    /\ tok.payload.aud = TOKEN_AUDIENCE

\* C22: get_token_expiry_seconds never raises: it returns None for a token
\* that does not parse or fails the signature, issuer or audience check, and
\* for every token that passes them, expired or not, the whole seconds
\* between the clock and the expiry, 0 once the expiry is reached: never a
\* negative number.
C22_RemainingTtl ==
    lastOp.op = "get_token_expiry_seconds" =>
        LET tok == lastOp.token
            res == lastOp.result
            left == tok.payload.exp - lastOp.at
        IN  /\ res.none \in BOOLEAN
            /\ res.seconds >= 0
            /\ ~Verifiable(tok) => res.none
            /\ Verifiable(tok) =>
                  /\ ~res.none
                  /\ left <= 0 => res.seconds = 0
                  /\ left > 0 =>
                        /\ res.seconds * Resolution <= left
                        /\ left < (res.seconds + 1) * Resolution

\* C22 witness: the remaining lifetime of a minted token was asked in the
\* last second before its expiry under the name of the other token type, and
\* the answer is 0.
C22_Witness ==
    /\ lastOp.op = "get_token_expiry_seconds"
    /\ Minted(lastOp.token)
    /\ lastOp.token_type # lastOp.token.payload.type
    /\ lastOp.token.payload.exp > lastOp.at
    /\ lastOp.result = [none |-> FALSE, seconds |-> 0]

(***************************************************************************)
(* Claims about is_admin (checked under SpecAdmin).                        *)
(***************************************************************************)
\* C23: whenever the role name "admin" is in the role list of the presented
\* token, is_admin returns true without reading the stored role data, also
\* after the principal's assignment to the admin role has been revoked in
\* the store.
C23_AdminFastPath ==
    (lastOp.op = "is_admin" /\ "admin" \in Range(lastOp.user.roles)) =>
        /\ lastOp.result = TRUE
        /\ ~lastOp.queried

\* C23 witness: is_admin answered true to a token naming admin whose
\* subject has a user row, a revoked assignment to the admin role and no
\* permission left in the store.
C23_Witness ==
    /\ lastOp.op = "is_admin"
    /\ "admin" \in Range(lastOp.user.roles)
    /\ lastOp.user.sub \in users
    /\ \E ur \in userRoles :
          /\ ur.user_id = lastOp.user.sub
          /\ roles[ur.role_id].name = "admin"
          /\ ur.deleted_at
    /\ Granted(lastOp.user.sub) = {}
    /\ lastOp.result = TRUE

\* C28: when "admin" is not in the role list of the presented token,
\* is_admin returns true exactly when the store holds a non-revoked
\* assignment of the principal to a role named admin that is active and not
\* soft-deleted, the roles the resolver takes permissions from.
C28_AdminFallback ==
    (lastOp.op = "is_admin" /\ "admin" \notin Range(lastOp.user.roles)) =>
        /\ lastOp.queried
        /\ lastOp.result =
              (\E r \in EffectiveRoles(lastOp.user.sub) : roles[r].name = "admin")

\* C28 witness: is_admin answered true to a token that does not name admin,
\* through an assignment to the admin role after that role was
\* soft-deleted; the resolver grants the principal nothing.
C28_Witness ==
    /\ lastOp.op = "is_admin"
    /\ "admin" \notin Range(lastOp.user.roles)
    /\ lastOp.result = TRUE
    /\ \E ur \in userRoles :
          /\ ur.user_id = lastOp.user.sub
          /\ ~ur.deleted_at
          /\ roles[ur.role_id].name = "admin"
          /\ roles[ur.role_id].is_active
          /\ roles[ur.role_id].deleted_at
    /\ EffectiveRoles(lastOp.user.sub) = {}
    /\ Granted(lastOp.user.sub) = {}

(***************************************************************************)
(* Claims about role seeding (checked under SpecRecorder).                 *)
(***************************************************************************)
\* The role rows of the table rs that carry the default role name.
RowsNamed(rs, name) == {r \in DOMAIN rs : rs[r].name = name}

\* The table rs holds a live row for each of the four default roles.
Seeded(rs) ==
    \A name \in Range(DefaultRoleNames) :
        \E r \in RowsNamed(rs, name) : ~rs[r].deleted_at

C24_Step ==
    (lastOp'.op = "seed_default_roles" /\ Seeded(roles)) =>
        /\ lastOp'.created = 0
        /\ lastOp'.updated = 4
        /\ lastOp'.failed = 0
        /\ DOMAIN roles' = DOMAIN roles
        /\ \A name \in Range(DefaultRoleNames) :
              /\ RowsNamed(roles', name) = RowsNamed(roles, name)
              /\ Cardinality(RowsNamed(roles', name)) = 1
              /\ \A r \in RowsNamed(roles', name) :
                    /\ Range(roles'[r].permissions.items) = Range(DEFAULT_ROLES[name])
                    /\ roles'[r].is_active
                    /\ ~roles'[r].deleted_at
        /\ lastOp.op = "seed_default_roles" => roles' = roles

\* C24: seed_default_roles run on a store that already holds the four
\* default roles creates no role and updates all four in place (created = 0,
\* updated = 4): the same role rows with the same ids and the default
\* permission sets, and right after a first run the roles table is left as
\* it was.
C24_SeedingIdempotent == [][C24_Step]_vars

\* C24 witness: a run of seed_default_roles has reported no role created
\* and four updated, and the store holds the rows the first run created next
\* to the reviewer row it found.
C24_Witness ==
    /\ lastOp = [op |-> "seed_default_roles", created |-> 0, updated |-> 4,
                 failed |-> 0]
    /\ {NewRoleId("admin"), NewRoleId("staff_manager"), NewRoleId("staff_viewer")}
          \subseteq DOMAIN roles
    /\ RowsNamed(roles, "reviewer") = {"r1"}
    /\ roles["r1"].permissions = PermList(DEFAULT_ROLES.reviewer)

(***************************************************************************)
(* Claims about the login state (checked under SpecLogin).                 *)
(***************************************************************************)
\* The state values generate_state has returned so far.
Generated == {token_urlsafe(LoginStates, i) : i \in 0..(secrets_drawn - 1)}

\* The state values that wait in _auth_states for their callback.
Pending == DOMAIN auth_states

\* What validate_state answered in the step that ends in lastOp', as a
\* direct call or as the first statement of auth_callback.
StateAccepted(op) ==
    IF op.op = "validate_state" THEN op.result ELSE op.status # 400

C25_Step ==
    /\ lastOp'.op = "login" =>
          /\ lastOp'.state \notin Generated
          /\ Pending' = Pending \cup {lastOp'.state}
    /\ lastOp'.op \in {"validate_state", "auth_callback"} =>
          LET s == lastOp'.state
          IN  /\ StateAccepted(lastOp') = (s \in Pending)
              /\ Pending' = Pending \ {s}
              /\ (s \in Generated /\ s \notin Pending) => ~StateAccepted(lastOp')
              /\ s \notin Generated => ~StateAccepted(lastOp')
    /\ Pending' \subseteq Generated'
    /\ Generated \subseteq Generated'

\* C25: a login state is consumed exactly once: generate_state returns a
\* value it has not returned before and files it; validate_state of a filed
\* value returns true and removes it, so every later validate_state of that
\* value returns false; validate_state of a value that was never generated
\* returns false, whatever the order of the login and callback requests.
C25_StateConsumedOnce == [][C25_Step]_vars

\* C25 witness: a callback presented a state that had been generated and
\* consumed before and was refused, while the second generated state still
\* waits.
C25_Witness ==
    /\ lastOp.op = "auth_callback"
    /\ lastOp.state = "s1"
    /\ lastOp.status = 400
    /\ Generated = {"s1", "s2"}
    /\ Pending = {"s2"}

(***************************************************************************)
(* C26: every access token minted by POST /auth/refresh for a valid        *)
(* refresh token of a stored user carries the user's current role names:   *)
(* a role whose assignment was revoked, or that was deactivated or         *)
(* soft-deleted, before the refresh is not in the new token's role list.   *)
(***************************************************************************)
\* The names of the roles the store grants the principal through.
CurrentRoleNames(u) == {roles[r].name : r \in EffectiveRoles(u)}

\* The step is a refresh answered with a new access token.
Refreshed(op) == op.op = "refresh_token" /\ op.result.status_code = 200

C26_Step ==
    Refreshed(lastOp') =>
        Range(lastOp'.result.access_token.payload.roles)
            = CurrentRoleNames(lastOp'.result.access_token.payload.sub)

C26_RefreshCarriesCurrentRoles == [][C26_Step]_vars

\* A refresh answered with a token that names the reviewer role while the
\* principal's only assignment to it is revoked.
C26_Witness ==
    /\ Refreshed(lastOp)
    /\ lastOp.result.access_token.payload.sub = "u1"
    /\ \E ur \in userRoles :
          /\ ur.user_id = "u1"
          /\ ur.deleted_at
          /\ roles[ur.role_id].name
                \in Range(lastOp.result.access_token.payload.roles)

(***************************************************************************)
(* C27: while the login callback replaces a user's role assignments        *)
(* (delete all, insert the mapped roles, one commit), a concurrent         *)
(* resolvePermissions for the same principal observes the complete old     *)
(* assignment set or the complete new one, never an intermediate state.    *)
(***************************************************************************)
\* What the resolver answers over a set of assignment rows.
ResolvedOver(rows) ==
    get_inherited_permissions(SetToSeq(UNION {role_permissions(ur) : ur \in rows}))

\* The resolver's answer before the callback, and after its commit.
OldView(cb) == IF cb.existed THEN ResolvedOver(cb.old) ELSE {}
NewRows(cb) == {UserRole(cb.user_id, r) : r \in cb.local_roles}

C27_Step ==
    /\ (/\ lastOp'.op = "get_user_permissions"
        /\ callback.pc # "none"
        /\ lastOp'.user_id = callback.user_id)
          => lastOp'.result \in {OldView(callback), ResolvedOver(NewRows(callback))}
    /\ callback'.pc # "none"
          => {ur \in userRoles' : ur.user_id = callback'.user_id} = callback'.old
    /\ (callback.pc # "none" /\ callback'.pc = "none")
          => {ur \in userRoles' : ur.user_id = callback.user_id}
                \in {callback.old, NewRows(callback)}

C27_ReassignmentAtomic == [][C27_Step]_vars

\* The resolver is called for a principal who held a role, after the
\* callback has deleted the old rows and added one of two new ones.
C27_Witness ==
    /\ lastOp.op = "get_user_permissions"
    /\ callback.pc = "deleted"
    /\ lastOp.user_id = callback.user_id
    /\ callback.old # {}
    /\ callback.pending # {}
    /\ callback.pending # callback.local_roles
    /\ lastOp.result = OldView(callback)
    /\ lastOp.result # ResolvedOver(NewRows(callback))

(***************************************************************************)
(* C29: the decision of requirePermission, requireAny and requireAll       *)
(* depends only on the principal's subject id and the stored role data:    *)
(* two principals with the same subject and different token role lists     *)
(* (empty, stale, or naming admin) get the same decision.                  *)
(***************************************************************************)
\* The role lists a token of the same subject could carry instead.
TokenRoleLists ==
    { << >>, <<"admin">>, <<"reviewer">>, <<"reviewer", "admin">>,
      <<"staff_manager">> }

\* The status the gate of the recorded check gives this principal now.
GateStatus(op, user, user_roles) ==
    CASE op.op = "require_permission" ->
            require_permission(op.resource, op.action, user, user_roles,
                               op.insert_ok).status
      [] op.op = "require_any_permission" ->
            require_any_permission(op.permissions, user, user_roles,
                                   op.insert_ok).status
      [] op.op = "require_all_permissions" ->
            require_all_permissions(op.permissions, user, user_roles,
                                    op.insert_ok).status

C29_DecisionIgnoresTokenRoles ==
    lastOp.op \in GateOps =>
        \A token_roles \in TokenRoleLists :
          \A user_roles \in LoadOrders(user_roles_query(lastOp.user.sub)) :
            GateStatus(lastOp, [lastOp.user EXCEPT !.roles = token_roles], user_roles)
                = lastOp.status

\* A token that names admin is refused where the store grants its subject
\* nothing, although the subject was assigned the admin role before.
C29_Witness ==
    /\ lastOp.op = "require_permission"
    /\ "admin" \in Range(lastOp.user.roles)
    /\ lastOp.user.sub = "u1"
    /\ lastOp.status = 403
    /\ \E ur \in userRoles :
          ur.user_id = "u1" /\ ur.deleted_at /\ roles[ur.role_id].name = "admin"

====
